---------------------------- MODULE Spec2Model ----------------------------
(***************************************************************************)
(* Model of the result renderers of the Page Reader side panel             *)
(* (src/src/sidepanel/App.tsx): renderInlineMarkdown, renderMarkdown,      *)
(* renderJson / renderJsonObject, renderHtml, renderPlainText and          *)
(* renderResult; of the session hook (src/src/hooks/useSession.ts); and of *)
(* the background message listener (src/src/background/index.ts) with the  *)
(* settings storage (src/src/utils/storage.ts).                            *)
(*                                                                         *)
(* Text is modelled by TLA+ strings; a character is a string of length 1.  *)
(* Positions are 1-based as in Sequences (JavaScript's are 0-based).       *)
(* A React element is modelled by a record that keeps its tag and its      *)
(* children; class names and keys are presentation only and are left out.  *)
(***************************************************************************)
EXTENDS Integers, Sequences, FiniteSets, TLC

VARIABLES
    \* one call of renderInlineMarkdown, stepped one loop iteration at a time:
    \* [text (the argument), remaining, parts, pc ("idle" | "loop" | "done")]
    inline,
    \* one call of renderMarkdown, stepped one input line at a time:
    \* [markdown (the argument), lines, index (lines processed), elements,
    \*  listItems, orderedListItems, codeBlock, inCodeBlock, codeLanguage,
    \*  blockquoteLines, pc ("idle" | "loop" | "done"),
    \*  origin, from (history, see renderMarkdown below)]
    md,
    \* one call of renderJson, stepped through its try block:
    \* [jsonStr (the argument), cleanJson, out (the node returned),
    \*  pc ("idle" | "match" | "parse" | "done")]
    json,
    \* one call of renderResult:
    \* [content, format (the arguments), out (the renderer called and the
    \*  node it returned), pc ("idle" | "switch" | "done")]
    result,
    \* one call of renderPlainText, stepped one line at a time:
    \* [text (the argument), lines, index (lines mapped), nodes,
    \*  pc ("idle" | "map" | "done")]
    plain,
    \* one call of renderHtml, stepped one replacement at a time:
    \* [html (the argument), text (the text after the replacements done),
    \*  pc ("idle" | "scripts" | "double" | "single" | "done")]
    sanitizer,
    \* the state of one useSession hook (src/src/hooks/useSession.ts):
    \* [sessions (ids, in order), activeSessionId (0 for null), isLoading,
    \*  queue (the state updates enqueued since the last render),
    \*  calls (history: the number of calls made),
    \*  nextId (the next fresh session id)]
    session,
    \* the background service worker (src/src/background/index.ts) and the
    \* settings in chrome.storage.local (src/src/utils/storage.ts):
    \* [stored (the value under the settings key), msgs (for each message
    \*  received: message, pc ("switch" | "write" | "content" | "done"),
    \*  current (the settings read by saveSettings), responses (the
    \*  arguments of the sendResponse calls), failed (history: a storage
    \*  call of this message was rejected))]
    background

vars == <<inline, md, json, result, plain, sanitizer, session, background>>

---------------------------------------------------------------------------
(* Bounds of the explored inputs *)

\* longest enumerated inline text
MaxInlineLen == 5
\* most lines of an enumerated Markdown input
MaxLines == 3
\* most keys of an enumerated JSON object
MaxKeys == 2
\* most lines of an enumerated plain text
MaxPlainLines == 2
\* most pieces of an enumerated HTML text
MaxHtmlPieces == 2

\* calls of createSession, switchSession and deleteSession in one run
MaxSessionCalls == 3

\* messages the background listener receives in one run
MaxMessages == 2

---------------------------------------------------------------------------
(* String primitives of the JavaScript runtime *)

Min(S) == CHOOSE x \in S : \A y \in S : x <= y

Max(S) == CHOOSE x \in S : \A y \in S : y <= x

\* the characters a..b of s that exist (String.prototype.substring, 1-based
\* and inclusive)
Sub(s, a, b) ==
    LET clamped(lo, hi) == IF lo > hi THEN "" ELSE SubSeq(s, lo, hi)
    IN  clamped(IF a < 1 THEN 1 ELSE a, IF b > Len(s) THEN Len(s) ELSE b)

At(s, i) == Sub(s, i, i)

\* String.prototype.startsWith
startsWith(s, p) == Len(s) >= Len(p) /\ Sub(s, 1, Len(p)) = p

\* String.prototype.slice(n) with 0 <= n
slice(s, n) == Sub(s, n + 1, Len(s))

\* the characters \s matches and trim() strips, among those the inputs use
WhiteSpace == {" ", "\t", "\n"}

\* U+0060, the backtick: a string literal of this language cannot hold it, so
\* "~" stands for it in every text of the model (no input uses a real "~")
Tick == "~"

Digits == {"0", "1", "2", "3", "4", "5", "6", "7", "8", "9"}

\* String.prototype.trim
trim(s) ==
    LET kept(keep) ==
            IF keep = {} THEN "" ELSE Sub(s, Min(keep), Max(keep))
    IN  kept({i \in 1..Len(s) : At(s, i) \notin WhiteSpace})

\* positions >= from where p occurs in s
Occurrences(s, p, from) ==
    {i \in from..(Len(s) - Len(p) + 1) : Sub(s, i, i + Len(p) - 1) = p}

\* String.prototype.split(sep) for a separator of one character
RECURSIVE split(_, _)
split(s, sep) ==
    LET cut(i) == <<Sub(s, 1, i - 1)>> \o split(Sub(s, i + 1, Len(s)), sep)
        first(at) == IF at = {} THEN <<s>> ELSE cut(Min(at))
    IN  first(Occurrences(s, sep, 1))

\* all strings over alphabet A of length at most n
RECURSIVE Strings(_, _)
Strings(A, n) ==
    IF n = 0 THEN {""}
    ELSE LET more(S) == S \cup {s \o c : s \in S, c \in A}
         IN  more(Strings(A, n - 1))

---------------------------------------------------------------------------
(* renderInlineMarkdown: the four patterns.  Each operator returns the     *)
(* groups of the leftmost-lazy match the regular expression finds, or      *)
(* NoMatch.                                                                *)

NoMatch == [ok |-> FALSE, pre |-> "", body |-> "", href |-> "", rest |-> ""]

\* mutant: the last group is the whole text, not the text after the match
FoundWithoutProgress(s, preEnd, bodyFrom, bodyTo, hrefFrom, hrefTo, restFrom) ==
    [ok |-> TRUE,
     pre |-> Sub(s, 1, preEnd),
     body |-> Sub(s, bodyFrom, bodyTo),
     href |-> Sub(s, hrefFrom, hrefTo),
     rest |-> s]

Found(s, preEnd, bodyFrom, bodyTo, hrefFrom, hrefTo, restFrom) ==
    [ok |-> TRUE,
     pre |-> Sub(s, 1, preEnd),
     body |-> Sub(s, bodyFrom, bodyTo),
     href |-> Sub(s, hrefFrom, hrefTo),
     rest |-> Sub(s, restFrom, Len(s))]

\* the bold pattern of line 393: lazy prefix, ** or __, lazy body of one or
\* more characters, the same marker again, rest:
\* the first position i holding ** or __ that is closed by the same marker
\* at some j >= i + 3 (the body has at least one character), and the first
\* such j
boldMatch(s) ==
    LET closers(i) == Occurrences(s, Sub(s, i, i + 1), i + 3)
        opens == {i \in 1..Len(s) :
                     /\ Sub(s, i, i + 1) \in {"**", "__"}
                     /\ closers(i) # {}}
        found(i, j) == Found(s, i - 1, i + 2, j - 1, 1, 0, j + 2)
        first(o) == IF o = {} THEN NoMatch ELSE found(Min(o), Min(closers(Min(o))))
    IN  first(opens)

\* the italic pattern of line 402: lazy prefix, * or _, one or more
\* characters other than * and _, the same marker again, rest:
\* the first position i holding * or _ whose following run of characters
\* other than * and _ is non-empty and is ended by the same character
italicMatch(s) ==
    LET marks(i) == {k \in (i + 1)..Len(s) : At(s, k) \in {"*", "_"}}
        closes(i, m) == m # {} /\ Min(m) > i + 1 /\ At(s, Min(m)) = At(s, i)
        opens == {i \in 1..Len(s) : At(s, i) \in {"*", "_"} /\ closes(i, marks(i))}
        found(i, k) == Found(s, i - 1, i + 1, k - 1, 1, 0, k + 1)
        first(o) == IF o = {} THEN NoMatch ELSE found(Min(o), Min(marks(Min(o))))
    IN  first(opens)

\* the inline code pattern of line 411: lazy prefix, a backtick, one or more
\* characters other than a backtick, a backtick, rest
codeMatch(s) ==
    LET ticks(i) == Occurrences(s, Tick, i + 1)
        closes(i, t) == t # {} /\ Min(t) > i + 1
        opens == {i \in 1..Len(s) : At(s, i) = Tick /\ closes(i, ticks(i))}
        found(i, k) == Found(s, i - 1, i + 1, k - 1, 1, 0, k + 1)
        first(o) == IF o = {} THEN NoMatch ELSE found(Min(o), Min(ticks(Min(o))))
    IN  first(opens)

\* the link pattern of line 420: lazy prefix, [, one or more characters
\* other than ], then ]( , one or more characters other than ), then ), rest
linkMatch(s) ==
    LET close(i) == Occurrences(s, "]", i + 1)
        paren(k) == Occurrences(s, ")", k + 2)
        hasUrl(k, p) == At(s, k + 1) = "(" /\ p # {} /\ Min(p) > k + 2
        hasLabel(i, k) == k > i + 1 /\ hasUrl(k, paren(k))
        closes(i, c) == c # {} /\ hasLabel(i, Min(c))
        opens == {i \in 1..Len(s) : At(s, i) = "[" /\ closes(i, close(i))}
        found(i, k, m) == Found(s, i - 1, i + 1, k - 1, k + 2, m - 1, m + 1)
        second(i, k) == found(i, k, Min(paren(k)))
        first(o) == IF o = {} THEN NoMatch ELSE second(Min(o), Min(close(Min(o))))
    IN  first(opens)

\* mutant: an inline code inside the matched text is parsed again and its
\* backticks are dropped
SpanParsedAgain(tag, body, href) ==
    [tag |-> tag,
     text |-> IF codeMatch(body).ok
              THEN codeMatch(body).pre \o codeMatch(body).body \o codeMatch(body).rest
              ELSE body,
     href |-> href]

\* the element one branch pushes for its match
Span(tag, body, href) == [tag |-> tag, text |-> body, href |-> href]

\* mutant: the text before a match is scanned for an italic
PreSpanScanned(m) ==
    IF m.pre = "" THEN <<>>
    ELSE IF italicMatch(m.pre).ok
    THEN (IF italicMatch(m.pre).pre # ""
          THEN <<[tag |-> "span", text |-> italicMatch(m.pre).pre, href |-> ""]>> ELSE <<>>)
         \o <<[tag |-> "em", text |-> italicMatch(m.pre).body, href |-> ""]>>
         \o (IF italicMatch(m.pre).rest # ""
             THEN <<[tag |-> "span", text |-> italicMatch(m.pre).rest, href |-> ""]>> ELSE <<>>)
    ELSE <<[tag |-> "span", text |-> m.pre, href |-> ""]>>

\* the optional <span> for the text before a match
PreSpan(m) == IF m.pre # "" THEN <<Span("span", m.pre, "")>> ELSE <<>>

\* mutant: the italic pattern is tried before the bold pattern
InlineIterationItalicFirst(rem, ps) ==
    LET next(m, tag) ==
            [parts |-> ps \o PreSpan(m) \o <<Span(tag, m.body, m.href)>>,
             remaining |-> m.rest, break |-> FALSE, rule |-> tag]
        branch(b, i, c, l) ==
            IF i.ok THEN next(i, "em")
            ELSE IF b.ok THEN next(b, "strong")
            ELSE IF c.ok THEN next(c, "code")
            ELSE IF l.ok THEN next(l, "a")
            ELSE [parts |-> ps \o <<Span("span", rem, "")>>,
                  remaining |-> rem, break |-> TRUE, rule |-> "span"]
    IN  branch(boldMatch(rem), italicMatch(rem), codeMatch(rem), linkMatch(rem))

\* one iteration of the while loop of lines 391-430 on the remaining text
\* `rem` with the parts `ps` pushed so far: the first pattern that matches, in
\* the order bold, italic, code, link, pushes the text before its match (when
\* not empty) and its element and continues with the text after the match;
\* when none matches the remaining text is pushed and the loop is left
InlineIteration(rem, ps) ==
    LET next(m, tag) ==
            [parts |-> ps \o PreSpan(m) \o <<Span(tag, m.body, m.href)>>,
             remaining |-> m.rest, break |-> FALSE, rule |-> tag]
        branch(b, i, c, l) ==
            IF b.ok THEN next(b, "strong")
            ELSE IF i.ok THEN next(i, "em")
            ELSE IF c.ok THEN next(c, "code")
            ELSE IF l.ok THEN next(l, "a")
            ELSE [parts |-> ps \o <<Span("span", rem, "")>>,
                  remaining |-> rem, break |-> TRUE, rule |-> "span"]
    IN  branch(boldMatch(rem), italicMatch(rem), codeMatch(rem), linkMatch(rem))

\* the whole loop
RECURSIVE InlineLoop(_, _)
InlineLoop(rem, ps) ==
    IF Len(rem) = 0 THEN ps
    ELSE LET continue(it) ==
                 IF it.break THEN it.parts ELSE InlineLoop(it.remaining, it.parts)
         IN  continue(InlineIteration(rem, ps))

\* renderInlineMarkdown(text): the parts, in order (the function returns the
\* only part itself when there is one, and a fragment of the parts otherwise)
renderInlineMarkdown(t) == InlineLoop(t, <<>>)

---------------------------------------------------------------------------
(* renderInlineMarkdown as a process: one action per branch of the loop *)

InlineAlphabet == {"*", "_", Tick, "a"}

\* texts with the constructs the enumeration is too short for
InlineSamples ==
    {"*a **b** c*", "Some *x* and **y**.", "**a*", "**a " \o Tick \o "b" \o Tick \o " c**",
     "[a](b)", "x [a](b) y", "[a]b(c)", "[](b)", "[a]()", "*i* [a](b) **b**",
     Tick \o "c" \o Tick \o " __b__", "_i_ and " \o Tick \o "c" \o Tick, "Title", " c*"}

InlineTexts == Strings(InlineAlphabet, MaxInlineLen) \cup InlineSamples

InlineIdle == [text |-> "", remaining |-> "", parts |-> <<>>, pc |-> "idle"]

\* the state at the entry of the loop (lines 387-389)
InlineCall(t) == [text |-> t, remaining |-> t, parts |-> <<>>, pc |-> "loop"]

InlineTake(rule) ==
    /\ Len(inline.remaining) > 0
    /\ LET take(it) ==
               /\ it.rule = rule
               /\ inline' = [inline EXCEPT !.parts = it.parts,
                                           !.remaining = it.remaining,
                                           !.pc = IF it.break THEN "done" ELSE "loop"]
       IN  take(InlineIteration(inline.remaining, inline.parts))
    /\ UNCHANGED <<md, json, result, plain, sanitizer, session, background>>

InlineBold ==
    /\ inline.pc = "loop"
    /\ InlineTake("strong")

InlineItalic ==
    /\ inline.pc = "loop"
    /\ InlineTake("em")

InlineCode ==
    /\ inline.pc = "loop"
    /\ InlineTake("code")

InlineLink ==
    /\ inline.pc = "loop"
    /\ InlineTake("a")

\* no pattern matches: push the rest and break
InlineRest ==
    /\ inline.pc = "loop"
    /\ InlineTake("span")

\* the while condition fails: return
InlineReturn ==
    /\ inline.pc = "loop"
    /\ Len(inline.remaining) = 0
    /\ inline' = [inline EXCEPT !.pc = "done"]
    /\ UNCHANGED <<md, json, result, plain, sanitizer, session, background>>

---------------------------------------------------------------------------
(* renderMarkdown: the elements, the flush functions and the body of the   *)
(* forEach.  The local variables of one call are held in a record          *)
(*   [elements, listItems, orderedListItems, codeBlock, inCodeBlock,       *)
(*    codeLanguage, blockquoteLines]                                       *)
(* with two history fields the code does not have: `origin`, for each      *)
(* element the set of input lines (0-based) it was built from, and `from`, *)
(* the same for the lines held in each buffer.                             *)

Fence == Tick \o Tick \o Tick

\* Array.prototype.join
RECURSIVE join(_, _)
join(ss, sep) ==
    IF Len(ss) = 0 THEN ""
    ELSE IF Len(ss) = 1 THEN ss[1]
    ELSE ss[1] \o sep \o join(Tail(ss), sep)

\* xs.map(f) for the inline renderer
MapInline(xs) == [i \in 1..Len(xs) |-> renderInlineMarkdown(xs[i])]

\* xs.filter(Boolean) on strings: the empty string is dropped
RECURSIVE filterNonEmpty(_)
filterNonEmpty(xs) ==
    IF Len(xs) = 0 THEN <<>>
    ELSE (IF xs[1] # "" THEN <<xs[1]>> ELSE <<>>) \o filterNonEmpty(Tail(xs))

NoOrigin == [list |-> {}, ordered |-> {}, quote |-> {}, code |-> {}]

\* the state at the entry of the forEach (lines 322-329)
MdCall(markdown) ==
    [markdown |-> markdown, lines |-> split(markdown, "\n"), index |-> 0,
     elements |-> <<>>, listItems |-> <<>>, orderedListItems |-> <<>>,
     codeBlock |-> <<>>, inCodeBlock |-> FALSE, codeLanguage |-> "",
     blockquoteLines |-> <<>>, pc |-> "loop", origin |-> <<>>, from |-> NoOrigin]

\* mutant: the flushed buffer is not emptied
flushListKeepingItems(s) ==
    IF Len(s.listItems) > 0
    THEN [s EXCEPT !.elements = Append(@, [tag |-> "ul", items |-> MapInline(s.listItems)]),
                   !.origin = Append(@, s.from.list)]
    ELSE s

flushList(s) ==
    IF Len(s.listItems) > 0
    THEN [s EXCEPT !.elements = Append(@, [tag |-> "ul", items |-> MapInline(s.listItems)]),
                   !.listItems = <<>>,
                   !.origin = Append(@, s.from.list),
                   !.from.list = {}]
    ELSE s

\* mutant: the ordered list is never flushed by a line
flushOrderedListForgotten(s) == s

flushOrderedList(s) ==
    IF Len(s.orderedListItems) > 0
    THEN [s EXCEPT !.elements = Append(@, [tag |-> "ol", items |-> MapInline(s.orderedListItems)]),
                   !.orderedListItems = <<>>,
                   !.origin = Append(@, s.from.ordered),
                   !.from.ordered = {}]
    ELSE s

\* mutant: the code buffer is not emptied
flushCodeBlockKeepingLines(s) ==
    IF Len(s.codeBlock) > 0
    THEN [s EXCEPT !.elements = Append(@, [tag |-> "pre", language |-> s.codeLanguage,
                                           code |-> join(s.codeBlock, "\n")]),
                   !.codeLanguage = "",
                   !.origin = Append(@, s.from.code)]
    ELSE s

flushCodeBlock(s) ==
    IF Len(s.codeBlock) > 0
    THEN [s EXCEPT !.elements = Append(@, [tag |-> "pre", language |-> s.codeLanguage,
                                           code |-> join(s.codeBlock, "\n")]),
                   !.codeBlock = <<>>,
                   !.codeLanguage = "",
                   !.origin = Append(@, s.from.code),
                   !.from.code = {}]
    ELSE s

\* mutant: the blockquote buffer is not emptied
flushBlockquoteKeepingLines(s) ==
    IF Len(s.blockquoteLines) > 0
    THEN [s EXCEPT !.elements = Append(@, [tag |-> "blockquote",
                                           items |-> MapInline(s.blockquoteLines)]),
                   !.origin = Append(@, s.from.quote)]
    ELSE s

flushBlockquote(s) ==
    IF Len(s.blockquoteLines) > 0
    THEN [s EXCEPT !.elements = Append(@, [tag |-> "blockquote",
                                           items |-> MapInline(s.blockquoteLines)]),
                   !.blockquoteLines = <<>>,
                   !.origin = Append(@, s.from.quote),
                   !.from.quote = {}]
    ELSE s

\* mutant: the lists are not flushed before the next block
flushListsForgotten(s) == s

flushLists(s) == flushOrderedList(flushList(s))

\* number of leading digits of t
LeadingDigits(t) ==
    LET run(non) == IF non = {} THEN Len(t) ELSE Min(non) - 1
    IN  run({i \in 1..Len(t) : At(t, i) \notin Digits})

\* the ordered item test of line 502: digits, a dot, a whitespace character
IsOrderedItem(t) ==
    LET after(k) == k >= 1 /\ At(t, k + 1) = "." /\ At(t, k + 2) \in WhiteSpace
    IN  after(LeadingDigits(t))

\* the same prefix removed (line 504)
OrderedItemText(t) == slice(t, LeadingDigits(t) + 2)

\* mutant: the space after the '#' characters is not required
HeadingLevelWithoutSpace(t) ==
    IF startsWith(t, "######") THEN 0
    ELSE IF startsWith(t, "#####") THEN 5
    ELSE IF startsWith(t, "####") THEN 4
    ELSE IF startsWith(t, "###") THEN 3
    ELSE IF startsWith(t, "##") THEN 2
    ELSE IF startsWith(t, "#") THEN 1
    ELSE 0

\* level of the heading prefix of the trimmed line, 0 when it has none
\* (lines 469-485)
HeadingLevel(t) ==
    IF startsWith(t, "# ") THEN 1
    ELSE IF startsWith(t, "## ") THEN 2
    ELSE IF startsWith(t, "### ") THEN 3
    ELSE IF startsWith(t, "#### ") THEN 4
    ELSE IF startsWith(t, "##### ") THEN 5
    ELSE 0

HeadingTag(n) == <<"h1", "h2", "h3", "h4", "h5">>[n]

\* mutant: the paragraph branch does not test that the line is not blank
LineKindBlankAsParagraph(inCode, line) ==
    LET of(trimmed) ==
            IF startsWith(trimmed, Fence) THEN "fence"
            ELSE IF inCode THEN "codeline"
            ELSE IF startsWith(trimmed, "> ") THEN "blockquote"
            ELSE IF HeadingLevel(trimmed) > 0 THEN "heading"
            ELSE IF trimmed \in {"---", "***", "___"} THEN "hr"
            ELSE IF startsWith(trimmed, "- ") \/ startsWith(trimmed, "* ") THEN "unordered"
            ELSE IF IsOrderedItem(trimmed) THEN "ordered"
            ELSE IF startsWith(trimmed, "Tags:") THEN "tags"
            ELSE "paragraph"
    IN  of(trim(line))

\* the branch of the forEach body that a line takes (lines 436-527)
LineKind(inCode, line) ==
    LET of(trimmed) ==
            IF startsWith(trimmed, Fence) THEN "fence"
            ELSE IF inCode THEN "codeline"
            ELSE IF startsWith(trimmed, "> ") THEN "blockquote"
            ELSE IF HeadingLevel(trimmed) > 0 THEN "heading"
            ELSE IF trimmed \in {"---", "***", "___"} THEN "hr"
            ELSE IF startsWith(trimmed, "- ") \/ startsWith(trimmed, "* ") THEN "unordered"
            ELSE IF IsOrderedItem(trimmed) THEN "ordered"
            ELSE IF startsWith(trimmed, "Tags:") THEN "tags"
            ELSE IF trimmed # "" THEN "paragraph"
            ELSE "blank"
    IN  of(trim(line))

\* elements.push(e) for a node built from line idx alone
Emit(s, e, idx) ==
    [s EXCEPT !.elements = Append(@, e), !.origin = Append(@, {idx})]

\* the tags of a Tags: line (line 510)
TagsOf(trimmed) ==
    LET trimmedAll(raw) == [i \in 1..Len(raw) |-> trim(raw[i])]
    IN  filterNonEmpty(trimmedAll(split(slice(trimmed, 5), ",")))

\* mutant: the trimmed line is pushed
pushCodeLineTrimmed(s, line, idx) ==
    [s EXCEPT !.codeBlock = Append(@, trim(line)),
              !.from.code = @ \cup {idx}]

\* codeBlock.push(line) of line 454
pushCodeLine(s, line, idx) ==
    [s EXCEPT !.codeBlock = Append(@, line),
              !.from.code = @ \cup {idx}]

\* mutant: a blank line flushes the lists
blankLineFlushingLists(q) == flushLists(q)

\* a blank line outside a fence: no branch of lines 468-527 is taken; q is
\* the state after the flushBlockquote of line 465
blankLine(q) == q

\* mutant: the closing fence line does not flush the code buffer
closeFenceWithoutFlush(s) == [s EXCEPT !.inCodeBlock = FALSE]

\* a fence line while the fence flag is set (lines 440-442)
closeFence(s) == flushCodeBlock([s EXCEPT !.inCodeBlock = FALSE])

\* the body of the forEach for line `line` at 0-based position idx
processLine(s, line, idx) ==
    LET heading(q, trimmed, n) ==
            Emit(q, [tag |-> HeadingTag(n),
                     children |-> renderInlineMarkdown(slice(trimmed, n + 1))], idx)
        \* q: s after the flushBlockquote of line 465; ql: q after the two
        \* list flushes
        body(trimmed, kind, q, ql) ==
        CASE kind = "fence" ->
                IF s.inCodeBlock
                THEN closeFence(s)
                ELSE [flushBlockquote(flushLists(s)) EXCEPT
                         !.inCodeBlock = TRUE,
                         !.codeLanguage = trim(slice(trimmed, 3)),
                         !.from.code = {idx}]
          [] kind = "codeline" -> pushCodeLine(s, line, idx)
          [] kind = "blockquote" ->
                [flushLists(s) EXCEPT !.blockquoteLines = Append(@, slice(trimmed, 2)),
                                      !.from.quote = @ \cup {idx}]
          [] kind = "heading" -> heading(ql, trimmed, HeadingLevel(trimmed))
          [] kind = "hr" -> Emit(ql, [tag |-> "hr"], idx)
          [] kind = "unordered" ->
                [flushOrderedList(q) EXCEPT !.listItems = Append(@, slice(trimmed, 2)),
                                            !.from.list = @ \cup {idx}]
          [] kind = "ordered" ->
                [flushList(q) EXCEPT !.orderedListItems = Append(@, OrderedItemText(trimmed)),
                                     !.from.ordered = @ \cup {idx}]
          [] kind = "tags" ->
                Emit(ql, [tag |-> "tags", tags |-> TagsOf(trimmed)], idx)
          [] kind = "paragraph" ->
                Emit(ql, [tag |-> "p", children |-> renderInlineMarkdown(trimmed)], idx)
          [] OTHER -> blankLine(q)
    IN  body(trim(line), LineKind(s.inCodeBlock, line), flushBlockquote(s),
             flushLists(flushBlockquote(s)))

\* mutant: the code buffer is not flushed after the loop
finalFlushWithoutCode(s) == flushBlockquote(flushOrderedList(flushList(s)))

\* the four flushes after the loop (lines 530-533)
finalFlush(s) == flushCodeBlock(flushBlockquote(flushOrderedList(flushList(s))))

\* the forEach over the lines from 0-based position idx on
RECURSIVE forEachLine(_, _)
forEachLine(s, idx) ==
    IF idx >= Len(s.lines) THEN s
    ELSE forEachLine(processLine(s, s.lines[idx + 1], idx), idx + 1)

\* renderMarkdown(markdown): the elements returned
renderMarkdown(markdown) == finalFlush(forEachLine(MdCall(markdown), 0)).elements

---------------------------------------------------------------------------
(* JSON.parse, for the JSON texts of the model: objects, arrays, strings   *)
(* with the escapes \" \\ \/ \n \t, integers without fraction or exponent, *)
(* true, false, null.  (Texts with other escapes or with fractions are not *)
(* among the inputs.)  A value is a record [t, v]; an object's v is the    *)
(* sequence of its own properties in the order Object.entries lists them,  *)
(* and its history field `written` keeps the keys in the order of the text. *)

JsonWhite == {" ", "\t", "\n"}

ParseFail == [ok |-> FALSE, val |-> [t |-> "null", v |-> 0], next |-> 0]

Parsed(val, next) == [ok |-> TRUE, val |-> val, next |-> next]

\* the first position >= p that holds no white space
SkipWhite(s, p) ==
    LET first(rest) == IF rest = {} THEN Len(s) + 1 ELSE Min(rest)
    IN  first({i \in p..Len(s) : At(s, i) \notin JsonWhite})

DigitValue(c) == CHOOSE n \in 0..9 : <<"0", "1", "2", "3", "4", "5", "6", "7", "8", "9">>[n + 1] = c

\* the number a string of digits denotes
RECURSIVE ToInt(_)
ToInt(d) ==
    IF Len(d) = 0 THEN 0
    ELSE 10 * ToInt(Sub(d, 1, Len(d) - 1)) + DigitValue(At(d, Len(d)))

\* a canonical array index: "0", or digits without a leading zero (keys of
\* more than 9 digits are not among the inputs)
IsArrayIndex(key) ==
    /\ Len(key) \in 1..9
    /\ \A i \in 1..Len(key) : At(key, i) \in Digits
    /\ (Len(key) > 1 => At(key, 1) # "0")

Property(key, value) == [key |-> key, value |-> value]

\* does property a come before a new property b in the order of the keys of
\* an ordinary object: array indices ascending first, then the other keys in
\* the order of their creation
ComesBefore(a, b) ==
    IF IsArrayIndex(b) THEN IsArrayIndex(a) /\ ToInt(a) < ToInt(b) ELSE TRUE

\* the own properties of an object after obj[key] = value
DefineProperty(props, key, value) ==
    LET known == {i \in 1..Len(props) : props[i].key = key}
        ahead == {i \in 1..Len(props) : ComesBefore(props[i].key, key)}
        insert(n) ==
            SubSeq(props, 1, n) \o <<Property(key, value)>> \o SubSeq(props, n + 1, Len(props))
    IN  IF known # {}
        THEN [i \in 1..Len(props) |-> IF props[i].key = key THEN Property(key, value) ELSE props[i]]
        ELSE insert(Cardinality(ahead))

\* the characters of a string literal from position q on, up to its closing
\* quote; acc holds the characters read so far
RECURSIVE ParseChars(_, _, _)
ParseChars(s, q, acc) ==
    LET escape(e) ==
            IF e \in {"\"", "\\", "/"} THEN ParseChars(s, q + 2, acc \o e)
            ELSE IF e = "n" THEN ParseChars(s, q + 2, acc \o "\n")
            ELSE IF e = "t" THEN ParseChars(s, q + 2, acc \o "\t")
            ELSE ParseFail
        char(c) ==
            IF q > Len(s) THEN ParseFail
            ELSE IF c = "\"" THEN Parsed([t |-> "string", v |-> acc], q + 1)
            ELSE IF c = "\\" THEN escape(At(s, q + 1))
            ELSE IF c \in {"\n", "\t"} THEN ParseFail
            ELSE ParseChars(s, q + 1, acc \o c)
    IN  char(At(s, q))

\* an integer at position p: an optional minus, then 0 or digits that do not
\* start with 0
ParseNumber(s, p) ==
    LET digitsFrom(q) ==
            LET run(non) == IF non = {} THEN Len(s) - q + 1 ELSE Min(non) - q
            IN  run({i \in q..Len(s) : At(s, i) \notin Digits})
        int(q, sign, n) ==
            IF n = 0 THEN ParseFail
            ELSE IF At(s, q) = "0" THEN Parsed([t |-> "number", v |-> 0], q + 1)
            ELSE Parsed([t |-> "number", v |-> sign * ToInt(Sub(s, q, q + n - 1))], q + n)
    IN  IF At(s, p) = "-" THEN int(p + 1, -1, digitsFrom(p + 1))
        ELSE int(p, 1, digitsFrom(p))

RECURSIVE ParseValue(_, _)
RECURSIVE ParseElements(_, _, _)
RECURSIVE ParseMembers(_, _, _, _)

\* the value that starts at position p (white space already skipped)
ParseValue(s, p) ==
    LET array(q) ==
            IF At(s, q) = "]" THEN Parsed([t |-> "array", v |-> <<>>], q + 1)
            ELSE ParseElements(s, q, <<>>)
        object(q) ==
            IF At(s, q) = "}"
            THEN Parsed([t |-> "object", v |-> <<>>, written |-> <<>>], q + 1)
            ELSE ParseMembers(s, q, <<>>, <<>>)
        value(c) ==
            IF c = "{" THEN object(SkipWhite(s, p + 1))
            ELSE IF c = "[" THEN array(SkipWhite(s, p + 1))
            ELSE IF c = "\"" THEN ParseChars(s, p + 1, "")
            ELSE IF c = "-" \/ c \in Digits THEN ParseNumber(s, p)
            ELSE IF Sub(s, p, p + 3) = "true" THEN Parsed([t |-> "boolean", v |-> TRUE], p + 4)
            ELSE IF Sub(s, p, p + 4) = "false" THEN Parsed([t |-> "boolean", v |-> FALSE], p + 5)
            ELSE IF Sub(s, p, p + 3) = "null" THEN Parsed([t |-> "null", v |-> 0], p + 4)
            ELSE ParseFail
    IN  value(At(s, p))

\* the elements of an array from position p on; acc holds those read so far
ParseElements(s, p, acc) ==
    LET after(e, q) ==
            IF At(s, q) = "," THEN ParseElements(s, SkipWhite(s, q + 1), Append(acc, e.val))
            ELSE IF At(s, q) = "]" THEN Parsed([t |-> "array", v |-> Append(acc, e.val)], q + 1)
            ELSE ParseFail
        element(e) == IF e.ok THEN after(e, SkipWhite(s, e.next)) ELSE ParseFail
    IN  element(ParseValue(s, p))

\* the members of an object from position p on; props holds the properties
\* defined so far and keys the keys read so far
ParseMembers(s, p, props, keys) ==
    LET after(k, e, q) ==
            IF At(s, q) = ","
            THEN ParseMembers(s, SkipWhite(s, q + 1), DefineProperty(props, k.val.v, e.val),
                              Append(keys, k.val.v))
            ELSE IF At(s, q) = "}"
            THEN Parsed([t |-> "object", v |-> DefineProperty(props, k.val.v, e.val),
                         written |-> Append(keys, k.val.v)], q + 1)
            ELSE ParseFail
        member(k, e) == IF e.ok THEN after(k, e, SkipWhite(s, e.next)) ELSE ParseFail
        colon(k, q) ==
            IF At(s, q) = ":" THEN member(k, ParseValue(s, SkipWhite(s, q + 1)))
            ELSE ParseFail
        key(k) == IF k.ok THEN colon(k, SkipWhite(s, k.next)) ELSE ParseFail
    IN  IF At(s, p) = "\"" THEN key(ParseChars(s, p + 1, "")) ELSE ParseFail

\* JSON.parse(s): [ok, val]; not ok stands for the SyntaxError thrown
JSONparse(s) ==
    LET whole(r) ==
            IF r.ok /\ SkipWhite(s, r.next) = Len(s) + 1 THEN r ELSE ParseFail
    IN  whole(ParseValue(s, SkipWhite(s, 1)))

---------------------------------------------------------------------------
(* renderJson and renderJsonObject *)

\* longest array rendered on one line (line 589)
InlineArrayMax == 5

\* typeof x === 'object' (true of null, arrays and objects)
TypeofObject(x) == x.t \in {"null", "array", "object"}

\* mutant: the length of the array is not tested
isSimpleOfAnyLength(obj) ==
    \A i \in 1..Len(obj.v) : ~TypeofObject(obj.v[i]) \/ obj.v[i].t = "null"

\* isSimple && obj.length <= 5 (lines 588-589)
isSimpleAndShort(obj) ==
    /\ \A i \in 1..Len(obj.v) : ~TypeofObject(obj.v[i]) \/ obj.v[i].t = "null"
    /\ Len(obj.v) <= InlineArrayMax

RECURSIVE renderJsonObject(_, _)
renderJsonObject(obj, depth) ==
    LET items == [i \in 1..Len(obj.v) |-> renderJsonObject(obj.v[i], depth + 1)]
        \* the value of an entry is wrapped in a <div className="mt-1">
        wrapped(value) ==
            \/ value.t = "object"
            \/ value.t = "array" /\ Len(value.v) > 0 /\ TypeofObject(value.v[1])
        entry(e) ==
            [key |-> e.key, wrapped |-> wrapped(e.value),
             value |-> renderJsonObject(e.value, depth + 1)]
    IN  CASE obj.t = "null" -> [node |-> "null"]
          [] obj.t = "string" -> [node |-> "string", text |-> "\"" \o obj.v \o "\""]
          [] obj.t = "number" -> [node |-> "number", value |-> obj.v]
          [] obj.t = "boolean" -> [node |-> "boolean", text |-> IF obj.v THEN "true" ELSE "false"]
          [] obj.t = "array" ->
                IF Len(obj.v) = 0 THEN [node |-> "text", text |-> "[]"]
                ELSE IF isSimpleAndShort(obj)
                THEN [node |-> "inlineArray", items |-> items]
                ELSE [node |-> "blockArray", indented |-> depth > 0, items |-> items]
          [] obj.t = "object" ->
                IF Len(obj.v) = 0 THEN [node |-> "text", text |-> "{}"]
                ELSE [node |-> "object", indented |-> depth > 0,
                      entries |-> [i \in 1..Len(obj.v) |-> entry(obj.v[i])]]

\* jsonStr.match of line 557: three backticks, an optional "json", white
\* space, the shortest text up to the next three backticks.  The result is
\* the first group, or NoMatch.
jsonMatch(jsonStr) ==
    LET none == [ok |-> FALSE, group |-> ""]
        interior(p, j) == [ok |-> TRUE, group |-> Sub(jsonStr, p, j - 1)]
        tagged(start) ==
            IF Sub(jsonStr, start, start + 3) = "json" THEN start + 4 ELSE start
        closed(start, closers) ==
            IF closers = {} THEN none
            ELSE interior(SkipWhite(jsonStr, tagged(start)), Min(closers))
        opened(fences) ==
            IF fences = {} THEN none
            ELSE closed(Min(fences) + 3, Occurrences(jsonStr, Fence, Min(fences) + 3))
    IN  opened(Occurrences(jsonStr, Fence, 1))

\* cleanJson of line 558
cleanJson(jsonStr) ==
    LET clean(m) == IF m.ok THEN trim(m.group) ELSE trim(jsonStr)
    IN  clean(jsonMatch(jsonStr))

\* the <pre> of the catch branch (line 563)
PreformattedCandidate(jsonStr, candidate) == [kind |-> "pre", text |-> candidate]

Preformatted(jsonStr, candidate) == [kind |-> "pre", text |-> jsonStr]

\* the return of the try block (line 560)
Rendered(data) == [kind |-> "json", tree |-> renderJsonObject(data, 0)]

\* renderJson(jsonStr): the try block and its catch
renderJson(jsonStr) ==
    LET rendered(r) ==
            IF r.ok THEN Rendered(r.val)
            ELSE Preformatted(jsonStr, cleanJson(jsonStr))
    IN  rendered(JSONparse(cleanJson(jsonStr)))

---------------------------------------------------------------------------
(* renderHtml: the three replacements of lines 541-543.  The patterns have *)
(* the flags g and i: every match is removed, letters match in both cases. *)

UpperCase == "ABCDEFGHIJKLMNOPQRSTUVWXYZ"

LowerCase == "abcdefghijklmnopqrstuvwxyz"

IsUpper(c) == \E n \in 1..26 : At(UpperCase, n) = c

IsLower(c) == \E n \in 1..26 : At(LowerCase, n) = c

\* \w
IsWord(c) == IsUpper(c) \/ IsLower(c) \/ c \in Digits \/ c = "_"

RECURSIVE toLowerCase(_)
toLowerCase(s) ==
    LET lower(c) ==
            IF IsUpper(c) THEN At(LowerCase, CHOOSE n \in 1..26 : At(UpperCase, n) = c) ELSE c
    IN  IF Len(s) = 0 THEN "" ELSE lower(At(s, 1)) \o toLowerCase(Sub(s, 2, Len(s)))

\* the first element of a set of positions, 0 when there is none
FirstOf(positions) == IF positions = {} THEN 0 ELSE Min(positions)

\* the last position of the match of the script pattern (line 541) that
\* starts at i, 0 when there is none: "<script", a word boundary, then the
\* text up to and including the first "</script>"
ScriptMatchEnd(s, i) ==
    LET closing(j) == IF j = 0 THEN 0 ELSE j + 8
    IN  IF /\ toLowerCase(Sub(s, i, i + 6)) = "<script"
           /\ ~IsWord(At(s, i + 7))
        THEN closing(FirstOf({j \in (i + 7)..Len(s) :
                                  toLowerCase(Sub(s, j, j + 8)) = "</script>"}))
        ELSE 0

\* the last position of the match of a handler pattern (lines 542, 543)
\* that starts at i, 0 when there is none: "on", one or more word
\* characters, "=", the quote, the text up to and including the next quote
HandlerMatchEnd(s, i, quote) ==
    LET value(k) ==
            IF k > i + 2 /\ At(s, k) = "=" /\ At(s, k + 1) = quote
            THEN FirstOf({j \in (k + 2)..Len(s) : At(s, j) = quote})
            ELSE 0
    IN  IF toLowerCase(Sub(s, i, i + 1)) = "on"
        THEN value(FirstOf({k \in (i + 2)..(Len(s) + 1) : ~IsWord(At(s, k))}))
        ELSE 0

MatchEnd(pattern, s, i) ==
    IF pattern = "script" THEN ScriptMatchEnd(s, i)
    ELSE IF pattern = "double" THEN HandlerMatchEnd(s, i, "\"")
    ELSE HandlerMatchEnd(s, i, "'")

\* s.replace(pattern, '') with the flag g: the matches are found from left
\* to right, each search starts where the last match ended
RECURSIVE replaceAll(_, _)
replaceAll(s, pattern) ==
    LET cut(i) == Sub(s, 1, i - 1) \o replaceAll(Sub(s, MatchEnd(pattern, s, i) + 1, Len(s)), pattern)
        first(starts) == IF starts = {} THEN s ELSE cut(Min(starts))
    IN  first({i \in 1..Len(s) : MatchEnd(pattern, s, i) > 0})

\* sanitized of lines 540-543
sanitized(html) == replaceAll(replaceAll(replaceAll(html, "script"), "double"), "single")

\* the <div> whose inner HTML is the sanitized text
renderHtml(html) == [kind |-> "html", html |-> sanitized(html)]

---------------------------------------------------------------------------
(* renderPlainText: one node per line *)

\* mutant: the length of the trimmed line is not tested
IsCapsHeadingAnyLength(t) ==
    /\ Len(t) >= 2
    /\ IsUpper(At(t, 1))
    /\ \A i \in 2..Len(t) : IsUpper(At(t, i)) \/ At(t, i) \in WhiteSpace \/ At(t, i) = "&"

\* the test of line 649 on the trimmed line
IsCapsHeading(t) ==
    /\ Len(t) >= 2
    /\ IsUpper(At(t, 1))
    /\ \A i \in 2..Len(t) : IsUpper(At(t, i)) \/ At(t, i) \in WhiteSpace \/ At(t, i) = "&"
    /\ Len(t) > 3

PlainLine(line) ==
    LET node(t) ==
            IF IsCapsHeading(t) THEN [tag |-> "h3", text |-> line]
            ELSE IF startsWith(t, "-") THEN [tag |-> "p", indented |-> TRUE, text |-> line]
            ELSE IF t = "" THEN [tag |-> "spacer"]
            ELSE [tag |-> "p", indented |-> FALSE, text |-> line]
    IN  node(trim(line))

renderPlainText(text) ==
    LET nodes(lines) == [i \in 1..Len(lines) |-> PlainLine(lines[i])]
    IN  [kind |-> "plain", children |-> nodes(split(text, "\n"))]

---------------------------------------------------------------------------
(* renderResult: the switch on the format.  A format is a record            *)
(* [given, value]; given = FALSE stands for an argument that is undefined.  *)

\* format === name
FormatIsAnyCase(format, name) == format.given /\ toLowerCase(format.value) = name

FormatIs(format, name) == format.given /\ format.value = name

\* the case label the switch jumps to
SwitchCase(format) ==
    IF FormatIs(format, "html") THEN "html"
    ELSE IF FormatIs(format, "json") THEN "json"
    ELSE IF FormatIs(format, "plain") THEN "plain"
    ELSE IF FormatIs(format, "markdown") THEN "markdown"
    ELSE "default"

Call(renderer, node) == [renderer |-> renderer, node |-> node]

renderResult(content, format) ==
    LET case(label) ==
            IF label = "html" THEN Call("renderHtml", renderHtml(content))
            ELSE IF label = "json" THEN Call("renderJson", renderJson(content))
            ELSE IF label = "plain" THEN Call("renderPlainText", renderPlainText(content))
            ELSE Call("renderMarkdown", renderMarkdown(content))
    IN  case(SwitchCase(format))

---------------------------------------------------------------------------
(* renderMarkdown as a process: one action per branch of the forEach body, *)
(* and the flushes after the loop                                          *)

\* the lines the enumerated inputs are made of: one of each kind, and a
\* paragraph with blanks around it
LinePool ==
    {"- a", "1. b", "> q", Fence \o "js", "# H", "---", "Tags: a, b", "p", "", " x "}

\* lines that look like a marker and are none
Lookalikes ==
    {"#x", "###### x", ">x", "-a", "1.b", "1.", "tags: a", "--", "**b** *", "12) z", "#"}

\* all inputs of 1..n lines of the pool
RECURSIVE Documents(_, _)
Documents(P, n) ==
    IF n <= 1 THEN P
    ELSE LET more(D) == D \cup {d \o "\n" \o l : d \in D, l \in P}
         IN  more(Documents(P, n - 1))

MdSamples ==
    {"# Title\n\nSome *x* and **y**.\nTags: a, b",
     Fence \o "js\nconsole.log(1)\n" \o Fence,
     "- a\n* b\n12. c",
     "* a\n- b\n\n3.\td\n> q\n>  r",
     "## H2\n### H3\n#### H4\n##### H5\n###### H6",
     Fence \o "\n# H\n- a\n  > q\n\nTags: t",
     "- a\n" \o Fence \o " py \n\n x \n" \o Fence \o "\n1. b\n" \o Fence,
     "Tags:a,,b ,\n***\n___\nTags:",
     "- a\n\n- b\nafter",
     "p\n" \o Fence \o "\n  a\n\n# b",
     Fence \o "\nc\n" \o Fence \o "\n> q\n1. b\n- a"}
    \cup Documents(Lookalikes \cup {"p", ""}, 2)

MdInputs == Documents(LinePool, MaxLines) \cup MdSamples

MdIdle == [MdCall("") EXCEPT !.lines = <<>>, !.pc = "idle"]

MdLine(kind) ==
    /\ md.index < Len(md.lines)
    /\ LineKind(md.inCodeBlock, md.lines[md.index + 1]) = kind
    /\ md' = [processLine(md, md.lines[md.index + 1], md.index) EXCEPT
                 !.index = md.index + 1]
    /\ UNCHANGED <<inline, json, result, plain, sanitizer, session, background>>

MdFence ==
    /\ md.pc = "loop"
    /\ MdLine("fence")

MdCodeLine ==
    /\ md.pc = "loop"
    /\ MdLine("codeline")

MdBlockquote ==
    /\ md.pc = "loop"
    /\ MdLine("blockquote")

MdHeading ==
    /\ md.pc = "loop"
    /\ MdLine("heading")

MdRule ==
    /\ md.pc = "loop"
    /\ MdLine("hr")

MdUnordered ==
    /\ md.pc = "loop"
    /\ MdLine("unordered")

MdOrdered ==
    /\ md.pc = "loop"
    /\ MdLine("ordered")

MdTags ==
    /\ md.pc = "loop"
    /\ MdLine("tags")

MdParagraph ==
    /\ md.pc = "loop"
    /\ MdLine("paragraph")

MdBlank ==
    /\ md.pc = "loop"
    /\ MdLine("blank")

\* the loop is over: the four flushes, and return
MdFinish ==
    /\ md.pc = "loop"
    /\ md.index = Len(md.lines)
    /\ md' = [finalFlush(md) EXCEPT !.pc = "done"]
    /\ UNCHANGED <<inline, json, result, plain, sanitizer, session, background>>

---------------------------------------------------------------------------
(* renderJson as a process: the match of line 557, then JSON.parse and the *)
(* rendering, or the catch                                                  *)

JsonValid ==
    {"1", "-7", "0", "true", "false", "null", "\"a\"", "\"\"", "[]", "{}",
     "[1,2]", "[1,\"a\",null,true,2]", "[1,2,3,4,5,6]", "[[1],2]", "[{\"a\":1}]",
     "{\"a\":1,\"b\":[1,2,3]}", "[[1,2,3,4,5,6]]", "{\"b\":[1,[2],[]]}",
     "{\"a\":[null]}", "{\"a\":[[1]]}", "{\"a\":[1,{}]}",
     "[null,{}]", "{\"a\":[]}", "{\"a\":{}}", "{\"a\":{\"2\":0,\"1\":1}}",
     "{\"a\":[{\"b\":1}]}", "{ \"a\" : 1 ,\n\t\"b\" : [ 2 ] }", "{\"a\":1,\"a\":2}",
     "{\"b\":1,\"a\":2,\"b\":3}", "\"a\\\"b\\n\"",
     "\"" \o Tick \o "\"",
     "\"" \o Fence \o "\"",
     "\"" \o Fence \o "1" \o Fence \o "\"",
     "[\"" \o Fence \o "a" \o Fence \o "\"]",
     "{\"code\":\"" \o Fence \o "json\\n{}\\n" \o Fence \o "\"}"}

JsonInvalid ==
    {"not json", "{a:1}", "[1,]", "{\"a\":1", "01", "'a'", "", "tru", "{\"a\" 1}",
     "1 2", "\"a", "-", "{\"a\":1,}", "[1 2]", "\"a\nb\""}

KeyPool == {"2", "1", "10", "b", "a", "01"}

\* the sequences of at most n distinct keys of the pool
RECURSIVE KeyLists(_)
KeyLists(n) ==
    IF n = 0 THEN {<<>>}
    ELSE LET more(L) ==
                 L \cup {Append(l, k) : l \in L, k \in KeyPool}
         IN  {l \in more(KeyLists(n - 1)) :
                  \A i, j \in 1..Len(l) : l[i] = l[j] => i = j}

\* the text of the object that has these keys, written in this order; the
\* value of a key is its place in the text
RECURSIVE ObjectBody(_, _)
ObjectBody(keys, i) ==
    IF i > Len(keys) THEN ""
    ELSE (IF i > 1 THEN "," ELSE "") \o "\"" \o keys[i] \o "\":"
             \o <<"1", "2", "3", "4", "5", "6", "7", "8", "9">>[i] \o ObjectBody(keys, i + 1)

ObjectText(keys) == "{" \o ObjectBody(keys, 1) \o "}"

JsonObjects == {ObjectText(keys) : keys \in KeyLists(MaxKeys)}

\* a candidate as it is found in a model's answer
Wrappings(x) ==
    {x,
     "  " \o x \o "\n",
     Fence \o "json\n" \o x \o "\n" \o Fence,
     Fence \o x \o Fence,
     "Here:\n" \o Fence \o "json" \o x \o Fence \o "\nDone.",
     Fence \o "js\n" \o x \o "\n" \o Fence,
     Fence \o "json\n" \o x}

\* answers with more than one fenced block, or with a block of another tag
JsonSamples ==
    {Fence \o "js\nx\n" \o Fence \o "\n" \o Fence \o "json\n1\n" \o Fence,
     Fence \o "json\n1\n" \o Fence \o "\n" \o Fence \o "json\n2\n" \o Fence,
     "{\"a\":1}\n" \o Fence \o "\n[2]\n" \o Fence,
     Fence \o "text\nnull\n" \o Fence}

JsonInputs ==
    UNION {Wrappings(x) : x \in JsonValid \cup JsonInvalid} \cup JsonSamples
        \cup JsonObjects \cup {Fence \o "json\n" \o x \o "\n" \o Fence : x \in JsonObjects}

NoNode == [kind |-> "none"]

JsonIdle == [jsonStr |-> "", cleanJson |-> "", out |-> NoNode, pc |-> "idle"]

JsonCall(jsonStr) == [jsonStr |-> jsonStr, cleanJson |-> "", out |-> NoNode, pc |-> "match"]

\* lines 557-558, the pattern matches: the candidate is the first group
JsonFenced ==
    /\ json.pc = "match"
    /\ jsonMatch(json.jsonStr).ok
    /\ json' = [json EXCEPT !.cleanJson = cleanJson(json.jsonStr), !.pc = "parse"]
    /\ UNCHANGED <<inline, md, result, plain, sanitizer, session, background>>

\* lines 557-558, no match: the candidate is the whole text
JsonBare ==
    /\ json.pc = "match"
    /\ ~jsonMatch(json.jsonStr).ok
    /\ json' = [json EXCEPT !.cleanJson = cleanJson(json.jsonStr), !.pc = "parse"]
    /\ UNCHANGED <<inline, md, result, plain, sanitizer, session, background>>

\* lines 559-560: JSON.parse returns and the value is rendered
JsonRender ==
    /\ json.pc = "parse"
    /\ JSONparse(json.cleanJson).ok
    /\ json' = [json EXCEPT !.out = Rendered(JSONparse(json.cleanJson).val), !.pc = "done"]
    /\ UNCHANGED <<inline, md, result, plain, sanitizer, session, background>>

\* lines 561-564: JSON.parse throws and the catch returns the <pre>
JsonCatch ==
    /\ json.pc = "parse"
    /\ ~JSONparse(json.cleanJson).ok
    /\ json' = [json EXCEPT !.out = Preformatted(json.jsonStr, json.cleanJson), !.pc = "done"]
    /\ UNCHANGED <<inline, md, result, plain, sanitizer, session, background>>

---------------------------------------------------------------------------
(* renderResult as a process: one action per case of the switch *)

ResultContents ==
    {"", "# T\n- a\n**b**", "{\"a\":1}", "  [1,2] ", "not json",
     "<b onclick=\"x\">a</b><script>b</script>", "TITLE\n- x\n\nplain",
     Fence \o "json\n{\"2\":0,\"1\":1}\n" \o Fence}

Given(value) == [given |-> TRUE, value |-> value]

Undefined == [given |-> FALSE, value |-> ""]

ResultFormats ==
    {Given(v) : v \in {"html", "json", "plain", "markdown", "HTML", "Html", "Json", "JSON",
                       "PLAIN", "Markdown", "text", "md", "", " html", "htm", "plain "}}
        \cup {Undefined}

ResultIdle == [content |-> "", format |-> Undefined, out |-> Call("", NoNode), pc |-> "idle"]

ResultCall(content, format) ==
    [content |-> content, format |-> format, out |-> Call("", NoNode), pc |-> "switch"]

ResultCase(label) ==
    /\ SwitchCase(result.format) = label
    /\ result' = [result EXCEPT !.out = renderResult(result.content, result.format),
                                !.pc = "done"]
    /\ UNCHANGED <<inline, md, json, plain, sanitizer, session, background>>

ResultHtml ==
    /\ result.pc = "switch"
    /\ ResultCase("html")

ResultJson ==
    /\ result.pc = "switch"
    /\ ResultCase("json")

ResultPlain ==
    /\ result.pc = "switch"
    /\ ResultCase("plain")

ResultMarkdown ==
    /\ result.pc = "switch"
    /\ ResultCase("markdown")

ResultDefault ==
    /\ result.pc = "switch"
    /\ ResultCase("default")

---------------------------------------------------------------------------
(* renderPlainText as a process: one action per branch of the map callback *)

PlainLinePool ==
    {"HELLO WORLD", "ABC", "ABCD", "A&B ", "  TITLE", "A B\tC", "Hello", "HELLO world",
     "ABC1", "&ABC", "abcd", "- item", "  -x", "-", "--- A", "", "   ", "\t", "text", "a - b"}

PlainSamples == {"HELLO WORLD\n\n- item", "TITLE\n  TITLE  \n\nText\n- a\n"}

PlainTexts == Documents(PlainLinePool, MaxPlainLines) \cup PlainSamples

PlainIdle == [text |-> "", lines |-> <<>>, index |-> 0, nodes |-> <<>>, pc |-> "idle"]

\* the state before the map (line 644)
PlainCall(text) ==
    [text |-> text, lines |-> split(text, "\n"), index |-> 0, nodes |-> <<>>, pc |-> "map"]

\* the branch of the callback a line takes
PlainBranch(line) ==
    LET of(node) ==
            IF node.tag = "h3" THEN "heading"
            ELSE IF node.tag = "spacer" THEN "spacer"
            ELSE IF node.indented THEN "dash"
            ELSE "text"
    IN  of(PlainLine(line))

PlainMap(branch) ==
    /\ plain.index < Len(plain.lines)
    /\ PlainBranch(plain.lines[plain.index + 1]) = branch
    /\ plain' = [plain EXCEPT !.nodes = Append(@, PlainLine(plain.lines[plain.index + 1])),
                              !.index = plain.index + 1]
    /\ UNCHANGED <<inline, md, json, result, sanitizer, session, background>>

PlainHeading ==
    /\ plain.pc = "map"
    /\ PlainMap("heading")

PlainDash ==
    /\ plain.pc = "map"
    /\ PlainMap("dash")

PlainSpacer ==
    /\ plain.pc = "map"
    /\ PlainMap("spacer")

PlainText ==
    /\ plain.pc = "map"
    /\ PlainMap("text")

\* the map is over: return the <div> of the nodes
PlainReturn ==
    /\ plain.pc = "map"
    /\ plain.index = Len(plain.lines)
    /\ plain' = [plain EXCEPT !.pc = "done"]
    /\ UNCHANGED <<inline, md, json, result, sanitizer, session, background>>

---------------------------------------------------------------------------
(* renderHtml as a process: the three replacements in their order *)

HtmlPieces ==
    {"<script>", "</script>", "<SCRIPT src=x>", "</Script\n>", "<scr", "ipt>", "a\nb",
     "o", "on", "nclick=\"x\"", "click='y'", "<b onLoad=\"z\">", "=\"", "'"}

\* the texts made of at most n pieces
RECURSIVE HtmlJoined(_)
HtmlJoined(n) ==
    IF n = 0 THEN {""}
    ELSE LET more(H) == H \cup {h \o piece : h \in H, piece \in HtmlPieces}
         IN  more(HtmlJoined(n - 1))

HtmlSamples ==
    {"<p>hi</p><script>\nalert(1)\n</script><i>x</i>",
     "<scr<script></script>ipt>alert(1)</script>",
     "<a oonx=\"\"nclick=\"y\">",
     "<scronx=''ipt>a</script>",
     "<b onclick=\"x\" onload='y'>a</b><script>b</script>c<SCRIPT>d</SCRIPT>"}

HtmlTexts == HtmlJoined(MaxHtmlPieces) \cup HtmlSamples

SanitizerIdle == [html |-> "", text |-> "", pc |-> "idle"]

SanitizerCall(html) == [html |-> html, text |-> html, pc |-> "scripts"]

\* line 541
SanitizeScripts ==
    /\ sanitizer.pc = "scripts"
    /\ sanitizer' = [sanitizer EXCEPT !.text = replaceAll(@, "script"), !.pc = "double"]
    /\ UNCHANGED <<inline, md, json, result, plain, session, background>>

\* line 542
SanitizeDouble ==
    /\ sanitizer.pc = "double"
    /\ sanitizer' = [sanitizer EXCEPT !.text = replaceAll(@, "double"), !.pc = "single"]
    /\ UNCHANGED <<inline, md, json, result, plain, session, background>>

\* line 543; the text is then set as the inner HTML of the <div>
SanitizeSingle ==
    /\ sanitizer.pc = "single"
    /\ sanitizer' = [sanitizer EXCEPT !.text = replaceAll(@, "single"), !.pc = "done"]
    /\ UNCHANGED <<inline, md, json, result, plain, session, background>>

---------------------------------------------------------------------------
(* useSession (src/src/hooks/useSession.ts): the two useState cells        *)
(* sessions and activeSessionId, and the callbacks createSession,          *)
(* switchSession and deleteSession.  A session is modelled by its id, a    *)
(* positive number (createDefaultSession makes a fresh id); 0 stands for   *)
(* null.  A call enqueues state updates; React applies the queue at the    *)
(* next render, the updater functions of setSessions first and in order.   *)
(* The callbacks of one render read the activeSessionId and the sessions   *)
(* of that render, which are the fields of the record.                     *)

\* xs.filter(s => s.id !== sessionId)
RECURSIVE filterOut(_, _)
filterOut(xs, sessionId) ==
    IF Len(xs) = 0 THEN <<>>
    ELSE (IF xs[1] # sessionId THEN <<xs[1]>> ELSE <<>>) \o filterOut(Tail(xs), sessionId)

\* sessions.some(s => s.id === sessionId)
some(xs, sessionId) == \E i \in 1..Len(xs) : xs[i] = sessionId

\* the updater function deleteSession passes to setSessions (lines 86-100),
\* with the activeSessionId of the render that made the callback: the new
\* sessions, the id it passes to setActiveSessionId (0 when it does not call
\* it), and whether it made the default session `fresh`
deleteUpdater(prev, sessionId, activeSessionId, fresh) ==
    IF sessionId = activeSessionId /\ Len(filterOut(prev, sessionId)) > 0
    THEN [sessions |-> filterOut(prev, sessionId),
          active |-> filterOut(prev, sessionId)[1], created |-> FALSE]
    ELSE IF Len(filterOut(prev, sessionId)) = 0
    THEN [sessions |-> <<fresh>>, active |-> fresh, created |-> TRUE]
    ELSE [sessions |-> filterOut(prev, sessionId), active |-> 0, created |-> FALSE]

\* the updates of the queue
Update(op, id, captured, value) ==
    [op |-> op, id |-> id, captured |-> captured, value |-> value]

\* the updates of setSessions applied in order to prev: the sessions, the
\* ids the updaters passed to setActiveSessionId while they ran, and the next
\* fresh id
RECURSIVE applySessions(_, _, _, _)
applySessions(prev, queue, late, fresh) ==
    LET deleted(d) ==
            applySessions(d.sessions, Tail(queue),
                          (IF d.active # 0 THEN Append(late, d.active) ELSE late),
                          (IF d.created THEN fresh + 1 ELSE fresh))
    IN  IF Len(queue) = 0 THEN [sessions |-> prev, late |-> late, fresh |-> fresh]
        ELSE IF queue[1].op = "append"
        THEN applySessions(Append(prev, queue[1].id), Tail(queue), late, fresh)
        ELSE IF queue[1].op = "sessions"
        THEN applySessions(queue[1].value, Tail(queue), late, fresh)
        ELSE IF queue[1].op = "delete"
        THEN deleted(deleteUpdater(prev, queue[1].id, queue[1].captured, fresh))
        ELSE applySessions(prev, Tail(queue), late, fresh)

\* the ids passed to setActiveSessionId by the calls, in order
RECURSIVE activeUpdates(_)
activeUpdates(queue) ==
    IF Len(queue) = 0 THEN <<>>
    ELSE (IF queue[1].op = "active" THEN <<queue[1].id>> ELSE <<>>)
         \o activeUpdates(Tail(queue))

\* the states loadSessionsFromStorage (lines 17-33) resolves to: what an
\* earlier run saved, or the default state with one fresh session
LoadedStates ==
    {[sessions |-> <<1>>, activeSessionId |-> 1],
     [sessions |-> <<1, 2>>, activeSessionId |-> 2],
     [sessions |-> <<1, 2, 3>>, activeSessionId |-> 1]}

\* the ids a call can be made with: the ids of the sessions there have been
SessionIds == 1..(session.nextId - 1)

\* the hook after its first render (lines 46-48)
SessionMount ==
    [sessions |-> <<>>, activeSessionId |-> 0, isLoading |-> TRUE, queue |-> <<>>,
     calls |-> 0, nextId |-> 1]

SessionIdle == SessionMount

\* the effect of lines 54-60: the promise resolves, the three states are set
\* and the hook renders again
SessionLoad ==
    /\ session.isLoading
    /\ \E state \in LoadedStates :
          session' = [session EXCEPT !.sessions = state.sessions,
                                     !.activeSessionId = state.activeSessionId,
                                     !.isLoading = FALSE,
                                     !.nextId = Len(state.sessions) + 1]
    /\ UNCHANGED <<inline, md, json, result, plain, sanitizer, background>>

\* a call is made: the hook is loaded and the run has calls left
SessionCall(updates, created) ==
    /\ ~session.isLoading
    /\ session.calls < MaxSessionCalls
    /\ session' = [session EXCEPT !.queue = @ \o updates,
                                  !.calls = @ + 1,
                                  !.nextId = @ + created]
    /\ UNCHANGED <<inline, md, json, result, plain, sanitizer, background>>

\* createSession (lines 70-75)
CreateSession ==
    /\ ~session.isLoading
    /\ SessionCall(<<Update("append", session.nextId, 0, <<>>),
                     Update("active", session.nextId, 0, <<>>)>>, 1)

\* switchSession (lines 78-82) with the id of a session of this render
SwitchSession ==
    \E sessionId \in SessionIds :
        /\ some(session.sessions, sessionId)
        /\ SessionCall(<<Update("active", sessionId, 0, <<>>)>>, 0)

\* switchSession with another id: no state is set
SwitchSessionUnknown ==
    \E sessionId \in SessionIds \cup {session.nextId} :
        /\ ~some(session.sessions, sessionId)
        /\ SessionCall(<<>>, 0)

\* deleteSession (lines 85-101): the updater is enqueued with the
\* activeSessionId of this render
DeleteSession ==
    \E sessionId \in SessionIds :
        SessionCall(<<Update("delete", sessionId, session.activeSessionId, <<>>)>>, 0)

\* deleteSession when no update is pending: React may run the updater at
\* once, on the current sessions, and enqueue its result
DeleteSessionEager ==
    \E sessionId \in SessionIds :
        /\ session.queue = <<>>
        /\ LET enqueue(d) ==
                   SessionCall(<<Update("sessions", 0, 0, d.sessions)>>
                                   \o (IF d.active # 0
                                       THEN <<Update("active", d.active, 0, <<>>)>>
                                       ELSE <<>>),
                               IF d.created THEN 1 ELSE 0)
           IN  enqueue(deleteUpdater(session.sessions, sessionId,
                                     session.activeSessionId, session.nextId))

\* the render after the calls: the queue of setSessions is applied, then the
\* ids passed to setActiveSessionId, those of the calls before those of the
\* updaters; the last one is the new activeSessionId
SessionRender ==
    /\ session.queue # <<>>
    /\ LET commit(r, actives) ==
               session' = [session EXCEPT
                              !.sessions = r.sessions,
                              !.activeSessionId =
                                  IF actives = <<>> THEN @ ELSE actives[Len(actives)],
                              !.queue = <<>>,
                              !.nextId = r.fresh]
           render(r) == commit(r, activeUpdates(session.queue) \o r.late)
       IN  render(applySessions(session.sessions, session.queue, <<>>, session.nextId))
    /\ UNCHANGED <<inline, md, json, result, plain, sanitizer, background>>

---------------------------------------------------------------------------
(* The background listener (src/src/background/index.ts) and the settings  *)
(* functions it calls (src/src/utils/storage.ts).  Every message runs its  *)
(* own async function; the steps of different messages interleave at the   *)
(* awaits.  A rejected promise of chrome.storage or chrome.tabs is an       *)
(* outcome of the step that awaits it.                                     *)

DEFAULT_SETTINGS ==
    [apiKey |-> "", baseUrl |-> "https://api.poe.com/v1", model |-> "GPT-5.1",
     videoApiKey |-> "", videoBaseUrl |-> "https://api.together.xyz/v1"]

\* { ...a, ...b }
Spread(a, b) ==
    [f \in DOMAIN a \cup DOMAIN b |-> IF f \in DOMAIN b THEN b[f] ELSE a[f]]

\* the value under the settings key: nothing, or what was set
NothingStored == [set |-> FALSE, value |-> [apiKey |-> ""]]

Stored(value) == [set |-> TRUE, value |-> value]

\* getSettings (lines 9-16) when the storage holds `stored`; `rejected`: the
\* storage call is rejected
getSettings(stored, rejected) ==
    IF rejected THEN DEFAULT_SETTINGS
    ELSE IF stored.set THEN Spread(DEFAULT_SETTINGS, stored.value)
    ELSE DEFAULT_SETTINGS

\* the argument of a sendResponse call; NoData and "" for a key it has not
NoData == [absent |-> TRUE]

Success(data) == [success |-> TRUE, data |-> data, error |-> ""]

Failure(error) == [success |-> FALSE, data |-> NoData, error |-> error]

\* the payloads of the SAVE_SETTINGS messages
Payloads == {[apiKey |-> "key"], [model |-> "Claude"], [apiKey |-> "other", baseUrl |-> "u"]}

NoPayload == [none |-> TRUE]

Messages ==
    {[type |-> t, payload |-> NoPayload] :
         t \in {"GET_SETTINGS", "GET_PAGE_CONTENT", "GET_SELECTED_TEXT", "PING"}}
    \cup {[type |-> "SAVE_SETTINGS", payload |-> p] : p \in Payloads}

\* what chrome.tabs.query resolves to: the first tab (id 0: there is none)
Tabs ==
    {[id |-> 0, url |-> ""], [id |-> 1, url |-> "chrome://settings"],
     [id |-> 2, url |-> "chrome-extension://abc/popup.html"],
     [id |-> 3, url |-> "https://example.com/"], [id |-> 4, url |-> ""]}

\* the answer of the content script
PageData == [content |-> "page"]

\* the listener is called with message m (lines 9-12)
Received(m) ==
    [message |-> m, pc |-> "switch", current |-> DEFAULT_SETTINGS, responses |-> <<>>,
     failed |-> FALSE]

\* handleMessage returned `response`: sendResponse of line 13
Returned(msg, response) ==
    [msg EXCEPT !.responses = Append(@, response), !.pc = "done"]

\* mutant: the catch of the listener sends no response
ThrewSilently(msg, error) ==
    [msg EXCEPT !.pc = "done", !.failed = TRUE]

\* handleMessage threw `error`: the catch of lines 14-16
Threw(msg, error) ==
    [msg EXCEPT !.responses = Append(@, Failure(error)), !.pc = "done", !.failed = TRUE]

BackgroundIdle == [stored |-> NothingStored, msgs |-> <<>>]

\* message i is at `pc` in the case of one of `types`
Reached(i, pc, types) ==
    /\ i \in 1..Len(background.msgs)
    /\ background.msgs[i].pc = pc
    /\ background.msgs[i].message.type \in types

\* a message arrives and the listener starts its async function
Receive ==
    /\ Len(background.msgs) < MaxMessages
    /\ \E m \in Messages :
          background' = [background EXCEPT !.msgs = Append(@, Received(m))]
    /\ UNCHANGED <<inline, md, json, result, plain, sanitizer, session>>

\* case 'GET_SETTINGS' (lines 23-26)
GetSettings ==
    /\ \E i \in 1..MaxMessages, rejected \in BOOLEAN :
          /\ Reached(i, "switch", {"GET_SETTINGS"})
          /\ background' =
                [background EXCEPT
                    !.msgs[i] = Returned([@ EXCEPT !.failed = rejected],
                                         Success(getSettings(background.stored, rejected)))]
    /\ UNCHANGED <<inline, md, json, result, plain, sanitizer, session>>

\* case 'SAVE_SETTINGS', saveSettings line 19: the settings are read
SaveSettingsRead ==
    /\ \E i \in 1..MaxMessages, rejected \in BOOLEAN :
          /\ Reached(i, "switch", {"SAVE_SETTINGS"})
          /\ background' =
                [background EXCEPT
                    !.msgs[i] = [@ EXCEPT !.current = getSettings(background.stored, rejected),
                                          !.failed = rejected,
                                          !.pc = "write"]]
    /\ UNCHANGED <<inline, md, json, result, plain, sanitizer, session>>

\* saveSettings line 20 and lines 30, 13: the merged settings are stored
SaveSettingsWrite ==
    /\ \E i \in 1..MaxMessages :
          /\ Reached(i, "write", {"SAVE_SETTINGS"})
          /\ background' =
                [background EXCEPT
                    !.stored = Stored(Spread(background.msgs[i].current,
                                             background.msgs[i].message.payload)),
                    !.msgs[i] = Returned(@, Success(NoData))]
    /\ UNCHANGED <<inline, md, json, result, plain, sanitizer, session>>

\* saveSettings line 20: chrome.storage.local.set is rejected
SaveSettingsRejected ==
    /\ \E i \in 1..MaxMessages :
          /\ Reached(i, "write", {"SAVE_SETTINGS"})
          /\ background' = [background EXCEPT !.msgs[i] = Threw(@, "Error: storage")]
    /\ UNCHANGED <<inline, md, json, result, plain, sanitizer, session>>

PageTypes == {"GET_PAGE_CONTENT", "GET_SELECTED_TEXT"}

\* lines 35-43: the result of the tab `tab` that the query resolved to, or
\* the step to the content script
tabChecked(msg, tab) ==
    IF tab.id = 0 THEN Returned(msg, Failure("No active tab"))
    ELSE IF startsWith(tab.url, "chrome://") \/ startsWith(tab.url, "chrome-extension://")
    THEN Returned(msg, Failure("Cannot read browser internal pages"))
    ELSE [msg EXCEPT !.pc = "content"]

\* lines 35-38: there is no active tab
NoActiveTab ==
    /\ \E i \in 1..MaxMessages, tab \in Tabs :
          /\ Reached(i, "switch", PageTypes)
          /\ tab.id = 0
          /\ background' = [background EXCEPT !.msgs[i] = tabChecked(@, tab)]
    /\ UNCHANGED <<inline, md, json, result, plain, sanitizer, session>>

\* lines 40-43: the tab shows an internal page
InternalPage ==
    /\ \E i \in 1..MaxMessages, tab \in Tabs :
          /\ Reached(i, "switch", PageTypes)
          /\ tab.id # 0
          /\ tabChecked(background.msgs[i], tab).pc = "done"
          /\ background' = [background EXCEPT !.msgs[i] = tabChecked(@, tab)]
    /\ UNCHANGED <<inline, md, json, result, plain, sanitizer, session>>

\* lines 35-45: the tab shows a page
TabFound ==
    /\ \E i \in 1..MaxMessages, tab \in Tabs :
          /\ Reached(i, "switch", PageTypes)
          /\ tabChecked(background.msgs[i], tab).pc = "content"
          /\ background' = [background EXCEPT !.msgs[i] = tabChecked(@, tab)]
    /\ UNCHANGED <<inline, md, json, result, plain, sanitizer, session>>

\* line 35: chrome.tabs.query is rejected
QueryRejected ==
    /\ \E i \in 1..MaxMessages :
          /\ Reached(i, "switch", PageTypes)
          /\ background' = [background EXCEPT !.msgs[i] = Threw(@, "Error: tabs")]
    /\ UNCHANGED <<inline, md, json, result, plain, sanitizer, session>>

\* lines 46-47: the content script answers
ContentAnswered ==
    /\ \E i \in 1..MaxMessages :
          /\ Reached(i, "content", PageTypes)
          /\ background' = [background EXCEPT !.msgs[i] = Returned(@, Success(PageData))]
    /\ UNCHANGED <<inline, md, json, result, plain, sanitizer, session>>

\* lines 48-50: the content script cannot be reached
ContentUnreachable ==
    /\ \E i \in 1..MaxMessages :
          /\ Reached(i, "content", PageTypes)
          /\ background' =
                [background EXCEPT
                    !.msgs[i] = Returned(@, Failure("Please refresh the page and try again"))]
    /\ UNCHANGED <<inline, md, json, result, plain, sanitizer, session>>

KnownTypes == {"GET_SETTINGS", "SAVE_SETTINGS"} \cup PageTypes

\* lines 53-54: any other type
UnknownType ==
    /\ \E i \in 1..MaxMessages :
          /\ i \in 1..Len(background.msgs)
          /\ background.msgs[i].pc = "switch"
          /\ background.msgs[i].message.type \notin KnownTypes
          /\ background' =
                [background EXCEPT !.msgs[i] = Returned(@, Failure("Unknown message type"))]
    /\ UNCHANGED <<inline, md, json, result, plain, sanitizer, session>>

---------------------------------------------------------------------------
(* Specifications: one per process, the others idle *)

InitInline ==
    /\ inline \in {InlineCall(t) : t \in InlineTexts}
    /\ md = MdIdle
    /\ json = JsonIdle
    /\ result = ResultIdle
    /\ plain = PlainIdle
    /\ sanitizer = SanitizerIdle
    /\ session = SessionIdle
    /\ background = BackgroundIdle

NextInline ==
    \/ InlineBold
    \/ InlineItalic
    \/ InlineCode
    \/ InlineLink
    \/ InlineRest
    \/ InlineReturn

SpecInline == InitInline /\ [][NextInline]_vars

InitMd ==
    /\ md \in {MdCall(m) : m \in MdInputs}
    /\ inline = InlineIdle
    /\ json = JsonIdle
    /\ result = ResultIdle
    /\ plain = PlainIdle
    /\ sanitizer = SanitizerIdle
    /\ session = SessionIdle
    /\ background = BackgroundIdle

NextMd ==
    \/ MdFence
    \/ MdCodeLine
    \/ MdBlockquote
    \/ MdHeading
    \/ MdRule
    \/ MdUnordered
    \/ MdOrdered
    \/ MdTags
    \/ MdParagraph
    \/ MdBlank
    \/ MdFinish

SpecMd == InitMd /\ [][NextMd]_vars

InitJson ==
    /\ json \in {JsonCall(j) : j \in JsonInputs}
    /\ inline = InlineIdle
    /\ md = MdIdle
    /\ result = ResultIdle
    /\ plain = PlainIdle
    /\ sanitizer = SanitizerIdle
    /\ session = SessionIdle
    /\ background = BackgroundIdle

NextJson ==
    \/ JsonFenced
    \/ JsonBare
    \/ JsonRender
    \/ JsonCatch

SpecJson == InitJson /\ [][NextJson]_vars

InitResult ==
    /\ result \in {ResultCall(c, f) : c \in ResultContents, f \in ResultFormats}
    /\ inline = InlineIdle
    /\ md = MdIdle
    /\ json = JsonIdle
    /\ plain = PlainIdle
    /\ sanitizer = SanitizerIdle
    /\ session = SessionIdle
    /\ background = BackgroundIdle

NextResult ==
    \/ ResultHtml
    \/ ResultJson
    \/ ResultPlain
    \/ ResultMarkdown
    \/ ResultDefault

SpecResult == InitResult /\ [][NextResult]_vars

InitPlain ==
    /\ plain \in {PlainCall(t) : t \in PlainTexts}
    /\ inline = InlineIdle
    /\ md = MdIdle
    /\ json = JsonIdle
    /\ result = ResultIdle
    /\ sanitizer = SanitizerIdle
    /\ session = SessionIdle
    /\ background = BackgroundIdle

NextPlain ==
    \/ PlainHeading
    \/ PlainDash
    \/ PlainSpacer
    \/ PlainText
    \/ PlainReturn

SpecPlain == InitPlain /\ [][NextPlain]_vars

InitHtml ==
    /\ sanitizer \in {SanitizerCall(h) : h \in HtmlTexts}
    /\ inline = InlineIdle
    /\ md = MdIdle
    /\ json = JsonIdle
    /\ result = ResultIdle
    /\ plain = PlainIdle
    /\ session = SessionIdle
    /\ background = BackgroundIdle

NextHtml ==
    \/ SanitizeScripts
    \/ SanitizeDouble
    \/ SanitizeSingle

SpecHtml == InitHtml /\ [][NextHtml]_vars

InitSession ==
    /\ session = SessionMount
    /\ inline = InlineIdle
    /\ md = MdIdle
    /\ json = JsonIdle
    /\ result = ResultIdle
    /\ plain = PlainIdle
    /\ sanitizer = SanitizerIdle
    /\ background = BackgroundIdle

NextSession ==
    \/ SessionLoad
    \/ CreateSession
    \/ SwitchSession
    \/ SwitchSessionUnknown
    \/ DeleteSession
    \/ DeleteSessionEager
    \/ SessionRender

SpecSession == InitSession /\ [][NextSession]_vars

InitBackground ==
    /\ background \in {[BackgroundIdle EXCEPT !.stored = st] :
                           st \in {NothingStored, Stored([apiKey |-> "old"])}}
    /\ inline = InlineIdle
    /\ md = MdIdle
    /\ json = JsonIdle
    /\ result = ResultIdle
    /\ plain = PlainIdle
    /\ sanitizer = SanitizerIdle
    /\ session = SessionIdle

\* the steps of the async functions of the listener
Handled ==
    \/ GetSettings
    \/ SaveSettingsRead
    \/ SaveSettingsWrite
    \/ SaveSettingsRejected
    \/ NoActiveTab
    \/ InternalPage
    \/ TabFound
    \/ QueryRejected
    \/ ContentAnswered
    \/ ContentUnreachable
    \/ UnknownType

NextBackground ==
    \/ Receive
    \/ Handled

SpecBackground == InitBackground /\ [][NextBackground]_vars

\* every promise the listener awaits is settled: a message that has a step
\* to take takes one
SpecBackgroundFair == SpecBackground /\ WF_vars(Handled)

Init ==
    \/ InitInline
    \/ InitMd
    \/ InitJson
    \/ InitResult
    \/ InitPlain
    \/ InitHtml
    \/ InitSession
    \/ InitBackground

Next ==
    \/ NextInline
    \/ NextMd
    \/ NextJson
    \/ NextResult
    \/ NextPlain
    \/ NextHtml
    \/ NextSession
    \/ NextBackground

Spec == Init /\ [][Next]_vars

---------------------------------------------------------------------------
(* Properties of renderMarkdown (checked under SpecMd) *)

MdDone == md.pc = "done"

\* the branch each line of the input takes outside a fence
KindsOutsideFence == [i \in 1..Len(md.lines) |-> LineKind(FALSE, md.lines[i])]

NonBlankLines == {i \in 1..Len(md.lines) : trim(md.lines[i]) # ""}

TextSpan(t) == Span("span", t, "")

\* C1: render("# Title\n\nSome *x* and **y**.\nTags: a, b", "markdown") returns
\* exactly a Heading of level 1 with text "Title", a Paragraph with the spans
\* Text("Some "), Italic("x"), Text(" and "), Bold("y"), Text("."), and a
\* TagList with the tags "a", "b", in this order.
C1_Scenario ==
    (MdDone /\ md.markdown = "# Title\n\nSome *x* and **y**.\nTags: a, b") =>
        md.elements =
            <<[tag |-> "h1", children |-> <<TextSpan("Title")>>],
              [tag |-> "p",
               children |-> <<TextSpan("Some "), Span("em", "x", ""), TextSpan(" and "),
                              Span("strong", "y", ""), TextSpan(".")>>],
              [tag |-> "tags", tags |-> <<"a", "b">>]>>

\* what the code returns for the input of C1: the italic before the bold
\* stays literal text
C1_CodeResult ==
    (MdDone /\ md.markdown = "# Title\n\nSome *x* and **y**.\nTags: a, b") =>
        md.elements =
            <<[tag |-> "h1", children |-> <<TextSpan("Title")>>],
              [tag |-> "p",
               children |-> <<TextSpan("Some *x* and "), Span("strong", "y", ""),
                              TextSpan(".")>>],
              [tag |-> "tags", tags |-> <<"a", "b">>]>>

\* C2: the emitted blocks are in the order of the input lines they were built
\* from: every element was built from at least one line, and when every line
\* of element i precedes every line of element j, then i precedes j in the
\* output; this also holds for the elements that a buffer emits later than
\* the lines that filled it.
C2_OrderPreserved ==
    /\ Len(md.origin) = Len(md.elements)
    /\ \A i \in 1..Len(md.elements) : md.origin[i] # {}
    /\ \A i, j \in 1..Len(md.elements) :
          (i # j /\ \A x \in md.origin[i], y \in md.origin[j] : x < y) => i < j

\* a list built from two items around a blank line was emitted by its buffer
\* and is followed by a block of a later line
C2_Witness ==
    /\ MdDone
    /\ Len(md.elements) >= 2
    /\ md.elements[1].tag = "ul"
    /\ Cardinality(md.origin[1]) = 2
    /\ 1 \notin md.origin[1]
    /\ md.elements[2].tag = "p"

\* the 1-based position of the fence line that opened the fence the input
\* ends in
LastFenceLine == Max({i \in 1..Len(md.lines) : startsWith(trim(md.lines[i]), Fence)})

\* the elements built from 1-based input line i
BuiltFrom(i) == {e \in 1..Len(md.elements) : (i - 1) \in md.origin[e]}

\* the last element is the one CodeBlock of the open fence, with every line
\* that followed the opening line
OpenFenceFlushed ==
    /\ Len(md.elements) >= 1
    /\ BuiltFrom(LastFenceLine) = {Len(md.elements)}
    /\ md.elements[Len(md.elements)] =
          [tag |-> "pre",
           language |-> trim(slice(trim(md.lines[LastFenceLine]), 3)),
           code |-> join(SubSeq(md.lines, LastFenceLine + 1, Len(md.lines)), "\n")]

\* C3 as stated: for every input that ends while a fence is open, exactly one
\* CodeBlock is emitted for that fence, as the last node, holding every line
\* that followed the opening fence line, in order.
C3_Original == (MdDone /\ md.inCodeBlock) => OpenFenceFlushed

\* C3 amended: for every input that ends while a fence is open and in which
\* at least one line follows the opening fence line, exactly one CodeBlock is
\* emitted for that fence, as the last node, holding every such line in
\* order; when the opening fence line is the last line of the input, no node
\* is emitted for the fence.
C3_Amended ==
    (MdDone /\ md.inCodeBlock) =>
        IF LastFenceLine < Len(md.lines)
        THEN OpenFenceFlushed
        ELSE BuiltFrom(LastFenceLine) = {}

\* an unterminated fence with two lines after the block that precedes it
C3_Witness ==
    /\ MdDone
    /\ md.inCodeBlock
    /\ LastFenceLine < Len(md.lines) - 1
    /\ Len(md.elements) = 2
    /\ md.elements[2].tag = "pre"

\* C4: two consecutive unordered items, then one ordered item, then the end
\* of the input, yield exactly two nodes: an unordered List with the two
\* items, then an ordered List with the one item.
C4_ListKindSwitch ==
    (MdDone /\ KindsOutsideFence = <<"unordered", "unordered", "ordered">>) =>
        md.elements =
            <<[tag |-> "ul",
               items |-> <<renderInlineMarkdown(slice(trim(md.lines[1]), 2)),
                           renderInlineMarkdown(slice(trim(md.lines[2]), 2))>>],
              [tag |-> "ol",
               items |-> <<renderInlineMarkdown(OrderedItemText(trim(md.lines[3])))>>]>>

C4_Witness ==
    /\ MdDone
    /\ md.markdown = "- a\n* b\n12. c"
    /\ Len(md.elements) = 2
    /\ md.elements[2].items = <<(<<TextSpan("c")>>)>>

\* C5: when no line of the input is a fence marker, blockquote, heading,
\* thematic break, list item or Tags: line, the output consists of Paragraph
\* nodes only and their number is the number of non-blank lines.
C5_LineAccounting ==
    (MdDone /\ \A i \in 1..Len(md.lines) : KindsOutsideFence[i] \in {"paragraph", "blank"}) =>
        /\ \A e \in 1..Len(md.elements) : md.elements[e].tag = "p"
        /\ Len(md.elements) = Cardinality(NonBlankLines)

\* two consecutive marker lookalikes give two paragraphs
C5_Witness ==
    /\ MdDone
    /\ md.markdown = "###### x\n1.b"
    /\ Len(md.elements) = 2
    /\ md.elements[1].tag = "p"
    /\ md.elements[2].tag = "p"

\* the input has three lines: two lines of the same kind, of one of the
\* kinds K, around a blank line
SameKindAroundBlank(K) ==
    /\ MdDone
    /\ Len(md.lines) = 3
    /\ KindsOutsideFence[2] = "blank"
    /\ KindsOutsideFence[1] \in K
    /\ KindsOutsideFence[3] = KindsOutsideFence[1]

\* C13 as stated: a blank line flushes nothing, so two unordered items, two
\* ordered items or two quote lines separated by a blank line end up in one
\* List or one Blockquote node.
C13_Original ==
    SameKindAroundBlank({"unordered", "ordered", "blockquote"}) =>
        /\ Len(md.elements) = 1
        /\ Len(md.elements[1].items) = 2

\* C13 amended: a blank line outside a fence changes neither list buffer nor
\* the code buffer and emits no node of its own, so two items of one kind
\* separated by a blank line end up in one List node; a pending blockquote is
\* emitted as one Blockquote node at the blank line, so two quote lines
\* separated by a blank line end up in two Blockquote nodes.
C13_Amended ==
    /\ [][MdBlank =>
            /\ md'.listItems = md.listItems
            /\ md'.orderedListItems = md.orderedListItems
            /\ md'.codeBlock = md.codeBlock
            /\ md'.blockquoteLines = <<>>
            /\ md'.elements =
                  IF md.blockquoteLines = <<>> THEN md.elements
                  ELSE Append(md.elements,
                              [tag |-> "blockquote", items |-> MapInline(md.blockquoteLines)])]_vars
    /\ [](SameKindAroundBlank({"unordered", "ordered"}) =>
            /\ Len(md.elements) = 1
            /\ md.elements[1].tag \in {"ul", "ol"}
            /\ Len(md.elements[1].items) = 2)
    /\ [](SameKindAroundBlank({"blockquote"}) =>
            /\ Len(md.elements) = 2
            /\ \A e \in 1..2 : md.elements[e].tag = "blockquote" /\ Len(md.elements[e].items) = 1)

\* two ordered items around a blank line
C13_Witness ==
    /\ MdDone
    /\ md.markdown = "1. b\n\n1. b"
    /\ md.elements = <<[tag |-> "ol", items |-> <<(<<TextSpan("b")>>), (<<TextSpan("b")>>)>>]>>

\* the next step processes input line `line` (the one at md.index + 1)
ProcessesLine(line) ==
    /\ md.pc = "loop"
    /\ md.index < Len(md.lines)
    /\ md'.index = md.index + 1
    /\ line = md.lines[md.index + 1]

\* C14: while the fence flag is set, every line that is not a fence marker is
\* appended to the code buffer untrimmed and unchanged, whatever it looks
\* like; it emits no node and changes no other buffer.
C14_InsideFence ==
    /\ [][\A line \in {md.lines[i] : i \in 1..Len(md.lines)} :
            (ProcessesLine(line) /\ md.inCodeBlock /\ ~startsWith(trim(line), Fence)) =>
                /\ md'.codeBlock = Append(md.codeBlock, line)
                /\ md'.elements = md.elements
                /\ md'.listItems = md.listItems
                /\ md'.orderedListItems = md.orderedListItems
                /\ md'.blockquoteLines = md.blockquoteLines
                /\ md'.inCodeBlock
                /\ md'.codeLanguage = md.codeLanguage]_vars
    /\ []((MdDone /\ md.markdown = Fence \o "\n# H\n- a\n  > q\n\nTags: t") =>
            md.elements = <<[tag |-> "pre", language |-> "",
                             code |-> "# H\n- a\n  > q\n\nTags: t"]>>)

\* a heading, an item, an indented quote and a blank line held in the code
\* buffer
C14_Witness ==
    /\ md.pc = "loop"
    /\ md.inCodeBlock
    /\ md.codeBlock = <<"# H", "- a", "  > q", "">>
    /\ md.elements = <<>>
    /\ md.listItems = <<>>
    /\ md.blockquoteLines = <<>>

\* the 1-based positions of the lines that are fence markers
FenceLines == {i \in 1..Len(md.lines) : startsWith(trim(md.lines[i]), Fence)}

\* the pairs <<o, c>> of an opening fence line and the line that closes it:
\* the markers open and close in turn
ClosedFences ==
    {<<o, c>> \in FenceLines \X FenceLines :
        /\ Cardinality({j \in FenceLines : j <= o}) % 2 = 1
        /\ c > o
        /\ \A j \in FenceLines : ~(o < j /\ j < c)}

\* the CodeBlock of the fence opened at line o and closed (or cut) at line c
CodeBlockOf(o, c) ==
    [tag |-> "pre",
     language |-> trim(slice(trim(md.lines[o]), 3)),
     code |-> join(SubSeq(md.lines, o + 1, c - 1), "\n")]

\* the fence opened at line o yields exactly one node, CodeBlockOf(o, c)
OneCodeBlock(o, c) ==
    /\ Cardinality(BuiltFrom(o)) = 1
    /\ \A e \in BuiltFrom(o) : md.elements[e] = CodeBlockOf(o, c)

\* C15 as stated: every fence that is opened and closed yields exactly one
\* CodeBlock with the trimmed language of the opening line and the lines
\* between the markers, possibly none.
C15_Original == MdDone => \A f \in ClosedFences : OneCodeBlock(f[1], f[2])

\* the nodes the pending lists and the pending blockquote are emitted as
PendingNodes ==
    (IF md.listItems = <<>> THEN <<>>
     ELSE <<[tag |-> "ul", items |-> MapInline(md.listItems)]>>)
    \o (IF md.orderedListItems = <<>> THEN <<>>
        ELSE <<[tag |-> "ol", items |-> MapInline(md.orderedListItems)]>>)
    \o (IF md.blockquoteLines = <<>> THEN <<>>
        ELSE <<[tag |-> "blockquote", items |-> MapInline(md.blockquoteLines)]>>)

\* the line that opened the fence the call is in
OpenedAt == Max({i \in FenceLines : i <= md.index})

\* C15 amended: every fence that is opened and closed with at least one line
\* between the two markers yields exactly one CodeBlock, emitted at the
\* closing line, with the trimmed text after the marker of the opening line as
\* language and the lines between the markers as lines; a fence closed right
\* after its opening line yields no node; opening a fence first flushes the
\* pending lists and blockquote.
C15_Amended ==
    /\ [](MdDone => \A f \in ClosedFences :
            IF f[2] > f[1] + 1 THEN OneCodeBlock(f[1], f[2]) ELSE BuiltFrom(f[1]) = {})
    /\ [][\A line \in {md.lines[i] : i \in 1..Len(md.lines)} :
            (ProcessesLine(line) /\ startsWith(trim(line), Fence)) =>
                IF md.inCodeBlock
                THEN /\ ~md'.inCodeBlock
                     /\ md'.codeBlock = <<>>
                     /\ md'.elements =
                           IF md.index = OpenedAt THEN md.elements
                           ELSE Append(md.elements, CodeBlockOf(OpenedAt, md.index + 1))
                ELSE /\ md'.inCodeBlock
                     /\ md'.elements = md.elements \o PendingNodes
                     /\ md'.listItems = <<>>
                     /\ md'.orderedListItems = <<>>
                     /\ md'.blockquoteLines = <<>>
                     /\ md'.codeLanguage = trim(slice(trim(line), 3))]_vars
    /\ []((MdDone /\ md.markdown = Fence \o "js\nconsole.log(1)\n" \o Fence) =>
            md.elements = <<[tag |-> "pre", language |-> "js", code |-> "console.log(1)"]>>)

\* a fence after a pending list, closed after two lines
C15_Witness ==
    /\ MdDone
    /\ md.markdown = "- a\n" \o Fence \o " py \n\n x \n" \o Fence \o "\n1. b\n" \o Fence
    /\ Len(md.elements) = 3
    /\ md.elements[1].tag = "ul"
    /\ md.elements[2] = [tag |-> "pre", language |-> "py", code |-> "\n x "]

\* the branch each line of the input takes, inside or outside a fence: a line
\* is inside a fence when an odd number of fence markers precedes it
Kinds ==
    [i \in 1..Len(md.lines) |->
        LineKind(Cardinality({j \in FenceLines : j < i}) % 2 = 1, md.lines[i])]

\* the lists of the output
ListElements == {e \in 1..Len(md.elements) : md.elements[e].tag \in {"ul", "ol"}}

ListKind(e) == IF md.elements[e].tag = "ul" THEN "unordered" ELSE "ordered"

\* the 1-based input lines element e was built from
LinesOf(e) == {i + 1 : i \in md.origin[e]}

\* the lines skip holds all lines between the first and the last line of
\* list e that are not its items, and the nearest line before and after the
\* list that is not in skip is not an item of its kind
RunOfItems(e, skip) ==
    LET first == Min(LinesOf(e))
        last == Max(LinesOf(e))
        before == {i \in 1..(first - 1) : i \notin skip}
        after == {i \in (last + 1)..Len(md.lines) : i \notin skip}
    IN  /\ Len(md.elements[e].items) = Cardinality(LinesOf(e))
        /\ \A i \in LinesOf(e) : Kinds[i] = ListKind(e)
        /\ \A i \in first..last : i \in LinesOf(e) \/ i \in skip
        /\ before # {} => Kinds[Max(before)] # ListKind(e)
        /\ after # {} => Kinds[Min(after)] # ListKind(e)

\* C16 as stated: a List node holds exactly a maximal run of consecutive
\* input lines of one marker kind; every line that is not an item of that
\* kind flushes the pending list.
C16_Original == MdDone => \A e \in ListElements : RunOfItems(e, {})

\* the blank lines outside a fence
BlankLines == {i \in 1..Len(md.lines) : Kinds[i] = "blank"}

\* C16 amended: a List node holds exactly a maximal run of input lines of one
\* marker kind that are consecutive or separated by blank lines only: an item
\* of the other kind flushes the pending list before it is buffered, and any
\* other non-blank line that is not an item flushes the pending list before
\* that line is processed; a blank line leaves the pending list untouched.
C16_Amended ==
    /\ [](MdDone => \A e \in ListElements : RunOfItems(e, BlankLines))
    /\ [][\A line \in {md.lines[i] : i \in 1..Len(md.lines)} :
            (ProcessesLine(line) /\ ~md.inCodeBlock) =>
                /\ LineKind(FALSE, line) = "unordered" =>
                      /\ md'.orderedListItems = <<>>
                      /\ md'.listItems = Append(md.listItems, slice(trim(line), 2))
                      /\ md'.elements = md.elements \o PendingNodes
                                            \/ md.orderedListItems = <<>>
                /\ LineKind(FALSE, line) = "ordered" =>
                      /\ md'.listItems = <<>>
                      /\ md'.orderedListItems =
                            Append(md.orderedListItems, OrderedItemText(trim(line)))
                      /\ md'.elements = md.elements \o PendingNodes
                                            \/ md.listItems = <<>>
                /\ LineKind(FALSE, line) \notin {"unordered", "ordered", "blank"} =>
                      /\ md'.listItems = <<>>
                      /\ md'.orderedListItems = <<>>
                      /\ (md.listItems # <<>> \/ md.orderedListItems # <<>>) =>
                            /\ Len(md'.elements) >= Len(md.elements) + 1
                            /\ SubSeq(md'.elements, 1, Len(md.elements) + 1)
                                   = md.elements \o PendingNodes
                /\ LineKind(FALSE, line) = "blank" =>
                      /\ md'.listItems = md.listItems
                      /\ md'.orderedListItems = md.orderedListItems]_vars

\* two unordered items, a blank line, then an ordered item that flushes them
C16_Witness ==
    /\ MdDone
    /\ md.markdown = "* a\n- b\n\n3.\td\n> q\n>  r"
    /\ Len(md.elements) = 3
    /\ md.elements[1].tag = "ul"
    /\ LinesOf(1) = {1, 2}
    /\ md.elements[2].tag = "ol"
    /\ LinesOf(2) = {4}

\* the nodes the pending lists are emitted as
PendingLists ==
    (IF md.listItems = <<>> THEN <<>>
     ELSE <<[tag |-> "ul", items |-> MapInline(md.listItems)]>>)
    \o (IF md.orderedListItems = <<>> THEN <<>>
        ELSE <<[tag |-> "ol", items |-> MapInline(md.orderedListItems)]>>)

\* C17: outside a fence, a line whose trimmed text starts with "> " flushes
\* both list buffers and appends the text after the prefix to the blockquote
\* buffer; any other line outside a fence, when the blockquote buffer is not
\* empty, emits that buffer as one Blockquote node before the line itself
\* produces or buffers anything.
C17_Blockquote ==
    [][\A line \in {md.lines[i] : i \in 1..Len(md.lines)} :
          (ProcessesLine(line) /\ ~md.inCodeBlock) =>
              IF startsWith(trim(line), "> ")
              THEN /\ md'.elements = md.elements \o PendingLists
                   /\ md'.listItems = <<>>
                   /\ md'.orderedListItems = <<>>
                   /\ md'.blockquoteLines = Append(md.blockquoteLines, slice(trim(line), 2))
              ELSE md.blockquoteLines # <<>> =>
                   /\ md'.blockquoteLines = <<>>
                   /\ Len(md'.elements) >= Len(md.elements) + 1
                   /\ SubSeq(md'.elements, 1, Len(md.elements) + 1) =
                          Append(md.elements,
                                 [tag |-> "blockquote",
                                  items |-> MapInline(md.blockquoteLines)])
                   /\ Len(md'.elements) <= Len(md.elements) + 2]_vars

\* a quote line, a heading that flushes it, and a quote line again
C17_Witness ==
    /\ MdDone
    /\ md.markdown = "> q\n# H\n> q"
    /\ md.elements = <<[tag |-> "blockquote", items |-> <<(<<TextSpan("q")>>)>>],
                       [tag |-> "h1", children |-> <<TextSpan("H")>>],
                       [tag |-> "blockquote", items |-> <<(<<TextSpan("q")>>)>>]>>

\* the number of '#' characters the text starts with
HashRun(t) ==
    LET run(other) == IF other = {} THEN Len(t) ELSE Min(other) - 1
    IN  run({i \in 1..Len(t) : At(t, i) # "#"})

\* the trimmed line starts with one to five '#' and a space
HeadingLine(line) ==
    /\ HashRun(trim(line)) \in 1..5
    /\ At(trim(line), HashRun(trim(line)) + 1) = " "

HeadingTags == {"h1", "h2", "h3", "h4", "h5"}

\* C18: outside a fence, a trimmed line that starts with n '#' and a space,
\* n in 1..5, flushes both list buffers and emits one Heading of level n
\* whose spans are the inline parse of the text after that prefix; a line with
\* six or more '#', or with no space after the '#', is not a Heading, so the
\* Headings of the output are as many as such lines.
C18_Headings ==
    /\ [][\A line \in {md.lines[i] : i \in 1..Len(md.lines)} :
            (ProcessesLine(line) /\ ~md.inCodeBlock) =>
                IF HeadingLine(line)
                THEN /\ md'.elements =
                            md.elements \o PendingNodes \o
                            <<[tag |-> <<"h1", "h2", "h3", "h4", "h5">>[HashRun(trim(line))],
                               children |-> renderInlineMarkdown(
                                   Sub(trim(line), HashRun(trim(line)) + 2, Len(trim(line))))]>>
                     /\ md'.listItems = <<>>
                     /\ md'.orderedListItems = <<>>
                ELSE \A e \in (Len(md.elements) + 1)..Len(md'.elements) :
                         md'.elements[e].tag \notin HeadingTags]_vars
    /\ [](MdDone =>
            Cardinality({e \in 1..Len(md.elements) : md.elements[e].tag \in HeadingTags})
                = Cardinality({i \in 1..Len(md.lines) :
                                   Kinds[i] \notin {"fence", "codeline"} /\ HeadingLine(md.lines[i])}))

\* headings of the levels 2 to 5, and six '#' that give a paragraph
C18_Witness ==
    /\ MdDone
    /\ md.markdown = "## H2\n### H3\n#### H4\n##### H5\n###### H6"
    /\ [e \in 1..Len(md.elements) |-> md.elements[e].tag] = <<"h2", "h3", "h4", "h5", "p">>
    /\ md.elements[4].children = <<TextSpan("H5")>>
    /\ md.elements[5].children = <<TextSpan("###### H6")>>

\* the node the code buffer is flushed to
PendingCode ==
    IF md.codeBlock = <<>> THEN <<>>
    ELSE <<[tag |-> "pre", language |-> md.codeLanguage,
            code |-> join(md.codeBlock, "\n")]>>

\* the number of input lines an element holds: the items of a list, the
\* paragraphs of a blockquote, the lines of a code block, one otherwise
LinesHeld(e) ==
    IF e.tag \in {"ul", "ol", "blockquote"} THEN Len(e.items)
    ELSE IF e.tag = "pre" THEN Len(split(e.code, "\n"))
    ELSE 1

RECURSIVE SumLinesHeld(_)
SumLinesHeld(es) ==
    IF Len(es) = 0 THEN 0 ELSE LinesHeld(es[1]) + SumLinesHeld(Tail(es))

\* C22: after the last line the buffers are flushed in the order unordered
\* list, ordered list, blockquote, code block; in the result every non-blank
\* line that is not a fence marker is represented in exactly one node, also
\* when the input ends in a list, a blockquote or a fence, and the nodes hold
\* as many lines as the input has outside its fence markers and its blank
\* lines between blocks.
C22_FinalFlush ==
    /\ [][(md.pc = "loop" /\ md'.pc = "done") =>
             md'.elements = md.elements \o PendingNodes \o PendingCode]_vars
    /\ [](MdDone =>
             /\ \A i \in NonBlankLines \ FenceLines : Cardinality(BuiltFrom(i)) = 1
             /\ SumLinesHeld(md.elements) =
                    Cardinality({i \in 1..Len(md.lines) : Kinds[i] \notin {"fence", "blank"}}))

\* the input ends inside a fence: the three lines after the marker are in
\* the one code block that the final flush emits
C22_Witness ==
    /\ MdDone
    /\ md.markdown = "p\n" \o Fence \o "\n  a\n\n# b"
    /\ md.inCodeBlock
    /\ Len(md.elements) = 2
    /\ md.elements[2] = [tag |-> "pre", language |-> "", code |-> "  a\n\n# b"]
    /\ BuiltFrom(5) = {2}

\* the buffers that hold something
NonEmptyBuffers ==
    {b \in {"listItems", "orderedListItems", "blockquoteLines", "codeBlock"} :
        md[b] # <<>>}

\* C26: after every line at most one of the four buffers is non-empty, and
\* the code buffer is non-empty only while the fence flag is set; the flush
\* at the end of the input therefore emits at most one node.
C26_OneBuffer ==
    /\ [](md.pc = "loop" =>
             /\ Cardinality(NonEmptyBuffers) <= 1
             /\ md.codeBlock # <<>> => md.inCodeBlock)
    /\ [][(md.pc = "loop" /\ md'.pc = "done") =>
             /\ Len(md'.elements) <= Len(md.elements) + 1
             /\ Len(md'.elements) = Len(md.elements) + Cardinality(NonEmptyBuffers)]_vars

\* the input ended in a list that followed a closed fence and a blockquote:
\* every buffer was filled in turn, and the final flush emitted the list
C26_Witness ==
    /\ MdDone
    /\ Len(md.lines) >= 5
    /\ \E i, j, k \in 1..Len(md.lines) :
          /\ i < j /\ j < k
          /\ Kinds[i] = "codeline"
          /\ Kinds[j] = "blockquote"
          /\ Kinds[k] \in {"unordered", "ordered"}
    /\ md.elements[Len(md.elements)].tag \in {"ul", "ol"}

---------------------------------------------------------------------------
(* Properties of renderJson (checked under SpecJson) *)

JsonDone == json.pc = "done"

\* C6: for every valid JSON text s (also one whose string values contain
\* triple backticks) renderJson(s) renders the value parsed from s and does
\* not take the catch branch.
C6_ValidJsonRendered ==
    (JsonDone /\ JSONparse(json.jsonStr).ok)
        => json.out = Rendered(JSONparse(json.jsonStr).val)

\* the keys of a text without the repetitions of a key
RECURSIVE FirstOccurrences(_)
FirstOccurrences(keys) ==
    IF Len(keys) = 0 THEN <<>>
    ELSE LET add(front, k) ==
                 IF \E i \in 1..Len(front) : front[i] = k THEN front ELSE Append(front, k)
         IN  add(FirstOccurrences(SubSeq(keys, 1, Len(keys) - 1)), keys[Len(keys)])

\* the rendering `node` of the value `val` lists the entries of every object
\* in the order its keys are written and has one item per array element
RECURSIVE InSourceOrder(_, _)
InSourceOrder(val, node) ==
    IF val.t = "object" /\ Len(val.v) > 0
    THEN /\ [i \in 1..Len(node.entries) |-> node.entries[i].key] = FirstOccurrences(val.written)
         /\ \A i \in 1..Len(val.v) : InSourceOrder(val.v[i].value, node.entries[i].value)
    ELSE IF val.t = "array" /\ Len(val.v) > 0
    THEN /\ Len(node.items) = Len(val.v)
         /\ \A i \in 1..Len(val.v) : InSourceOrder(val.v[i], node.items[i])
    ELSE TRUE

\* C7: the entries of every rendered object are in the order in which the
\* keys are written in the text (also keys that look like integers), and the
\* items of every rendered array are in the order of the text.
C7_SourceOrder ==
    (JsonDone /\ json.out.kind = "json")
        => InSourceOrder(JSONparse(json.cleanJson).val, json.out.tree)

\* C8: when the candidate does not parse, renderJson returns one <pre> whose
\* text is the argument itself, neither trimmed nor cut to the interior of a
\* fence; whatever the argument, what a call returns is a node.
C8_FallbackVerbatim ==
    /\ (JsonDone /\ ~JSONparse(cleanJson(json.jsonStr)).ok)
           => json.out = [kind |-> "pre", text |-> json.jsonStr]
    /\ JsonDone => json.out.kind \in {"json", "pre"}

C8_Witness ==
    /\ JsonDone
    /\ jsonMatch(json.jsonStr).ok
    /\ ~JSONparse(json.cleanJson).ok
    /\ json.cleanJson # json.jsonStr
    /\ json.out.kind = "pre"
    /\ json.out.text = json.jsonStr

Primitive(val) == val.t \in {"string", "number", "boolean"}

\* every array of the value `val` is rendered in `node` as the claim says,
\* the elements at depth + 1
RECURSIVE ArraysAsClaimed(_, _, _)
ArraysAsClaimed(val, node, depth) ==
    IF val.t = "array"
    THEN IF Len(val.v) = 0 THEN node = [node |-> "text", text |-> "[]"]
         ELSE /\ node.node =
                    IF /\ \A i \in 1..Len(val.v) : Primitive(val.v[i]) \/ val.v[i].t = "null"
                       /\ Len(val.v) <= 5
                    THEN "inlineArray" ELSE "blockArray"
              /\ Len(node.items) = Len(val.v)
              /\ \A i \in 1..Len(val.v) :
                    /\ node.items[i] = renderJsonObject(val.v[i], depth + 1)
                    /\ ArraysAsClaimed(val.v[i], node.items[i], depth + 1)
    ELSE IF val.t = "object" /\ Len(val.v) > 0
    THEN \A i \in 1..Len(val.v) :
             ArraysAsClaimed(val.v[i].value, node.entries[i].value, depth + 1)
    ELSE TRUE

\* C20: an empty array is rendered as "[]"; a non-empty array of at most 5
\* elements that are all primitives or null is rendered inline; every other
\* non-empty array is rendered one element per line; the elements are
\* rendered at depth + 1.  For {"a":1,"b":[1,2,3]} in a json fence, "a" shows
\* 1 and "b" shows the inline array of 1, 2, 3.
C20_Arrays ==
    /\ (JsonDone /\ json.out.kind = "json") =>
          ArraysAsClaimed(JSONparse(json.cleanJson).val, json.out.tree, 0)
    /\ (JsonDone /\ json.jsonStr = Fence \o "json\n{\"a\":1,\"b\":[1,2,3]}\n" \o Fence) =>
          json.out =
              [kind |-> "json",
               tree |-> [node |-> "object", indented |-> FALSE,
                         entries |->
                             <<[key |-> "a", wrapped |-> FALSE,
                                value |-> [node |-> "number", value |-> 1]],
                               [key |-> "b", wrapped |-> FALSE,
                                value |-> [node |-> "inlineArray",
                                           items |-> <<[node |-> "number", value |-> 1],
                                                       [node |-> "number", value |-> 2],
                                                       [node |-> "number", value |-> 3]>>]]>>]]

\* an array of six numbers inside an array: both are rendered as blocks
C20_Witness ==
    /\ JsonDone
    /\ json.jsonStr = "[[1,2,3,4,5,6]]"
    /\ json.out.kind = "json"
    /\ json.out.tree.node = "blockArray"
    /\ ~json.out.tree.indented
    /\ json.out.tree.items[1].node = "blockArray"
    /\ json.out.tree.items[1].indented
    /\ Len(json.out.tree.items[1].items) = 6

\* the value is a non-empty object, or a non-empty array whose first element
\* is an object
NestedBlockValue(val) ==
    \/ val.t = "object" /\ Len(val.v) > 0
    \/ val.t = "array" /\ Len(val.v) > 0 /\ val.v[1].t = "object"

\* every entry of every object of `val` is placed in a nested block exactly
\* when its value is one of NestedBlockValue
RECURSIVE EntriesAsClaimed(_, _)
EntriesAsClaimed(val, node) ==
    IF val.t = "array" /\ Len(val.v) > 0
    THEN \A i \in 1..Len(val.v) : EntriesAsClaimed(val.v[i], node.items[i])
    ELSE IF val.t = "object" /\ Len(val.v) > 0
    THEN \A i \in 1..Len(val.v) :
             /\ node.entries[i].wrapped = NestedBlockValue(val.v[i].value)
             /\ EntriesAsClaimed(val.v[i].value, node.entries[i].value)
    ELSE TRUE

\* C21: the value of an entry of a rendered object is placed in a nested
\* block exactly when it is a non-empty object or a non-empty array whose
\* first element is an object; every other value follows "key: " inline.
C21_NestedBlock ==
    (JsonDone /\ json.out.kind = "json") =>
        EntriesAsClaimed(JSONparse(json.cleanJson).val, json.out.tree)

\* the tag of a fence whose backticks end before position p: the letters
\* that follow them
FenceTag(t, p) ==
    LET run(non) == Sub(t, p, (IF non = {} THEN Len(t) ELSE Min(non) - 1))
    IN  run({k \in p..Len(t) : ~(IsLower(At(t, k)) \/ IsUpper(At(t, k)))})

\* the interior of the first fenced block of t, from position `from` on, that
\* has the tag json or no tag: the blocks are opened and closed in turn by
\* the runs of three backticks
RECURSIVE FirstJsonBlock(_, _)
FirstJsonBlock(t, from) ==
    LET none == [ok |-> FALSE, interior |-> ""]
        block(o, c) ==
            IF FenceTag(t, o + 3) \in {"json", ""}
            THEN [ok |-> TRUE, interior |-> Sub(t, o + 3 + Len(FenceTag(t, o + 3)), c - 1)]
            ELSE FirstJsonBlock(t, c + 3)
        closed(o, closers) == IF closers = {} THEN none ELSE block(o, Min(closers))
        opened(fences) ==
            IF fences = {} THEN none
            ELSE closed(Min(fences), Occurrences(t, Fence, Min(fences) + 3))
    IN  opened(Occurrences(t, Fence, from))

\* C25: the candidate of renderJson is the trimmed interior of the first
\* fenced block of the text that has the tag json or no tag, and the whole
\* trimmed text when there is no such block; a fence with another tag is not
\* used.
C25_Candidate ==
    json.pc \in {"parse", "done"} =>
        json.cleanJson =
            IF FirstJsonBlock(json.jsonStr, 1).ok
            THEN trim(FirstJsonBlock(json.jsonStr, 1).interior)
            ELSE trim(json.jsonStr)

---------------------------------------------------------------------------
(* Properties of renderResult (checked under SpecResult) *)

ResultDone == result.pc = "done"

\* the node each renderer returns for the content of the call
NodeOf(renderer) ==
    CASE renderer = "renderHtml" -> renderHtml(result.content)
      [] renderer = "renderJson" -> renderJson(result.content)
      [] renderer = "renderPlainText" -> renderPlainText(result.content)
      [] renderer = "renderMarkdown" -> renderMarkdown(result.content)

\* C10: renderResult returns what the HTML renderer returns exactly when the
\* format is "html", the JSON renderer exactly when it is "json", the plain
\* text renderer exactly when it is "plain", and the Markdown renderer for
\* "markdown" and for every other or missing format; letter case counts.
C10_Dispatch ==
    ResultDone =>
        /\ result.out.renderer = "renderHtml"
               <=> (result.format.given /\ result.format.value = "html")
        /\ result.out.renderer = "renderJson"
               <=> (result.format.given /\ result.format.value = "json")
        /\ result.out.renderer = "renderPlainText"
               <=> (result.format.given /\ result.format.value = "plain")
        /\ result.out.renderer = "renderMarkdown"
               <=> ~(result.format.given /\ result.format.value \in {"html", "json", "plain"})
        /\ result.out.renderer \in {"renderHtml", "renderJson", "renderPlainText", "renderMarkdown"}
        /\ result.out.node = NodeOf(result.out.renderer)

C10_Witness ==
    /\ ResultDone
    /\ result.format = Given("HTML")
    /\ result.content = "<b onclick=\"x\">a</b><script>b</script>"
    /\ result.out.renderer = "renderMarkdown"
    /\ result.out.node = renderMarkdown(result.content)
    /\ result.out.node # renderHtml(result.content)

---------------------------------------------------------------------------
(* Properties of renderPlainText (checked under SpecPlain) *)

PlainDone == plain.pc = "done"

\* the node the claim describes for one line, from the line alone
PlainNodeClaimed(line) ==
    LET capsOnly(t) ==
            \A i \in 1..Len(t) : IsUpper(At(t, i)) \/ At(t, i) \in WhiteSpace \/ At(t, i) = "&"
        node(t) ==
            IF IsUpper(At(t, 1)) /\ capsOnly(t) /\ Len(t) > 3 THEN [tag |-> "h3", text |-> line]
            ELSE IF At(t, 1) = "-" THEN [tag |-> "p", indented |-> TRUE, text |-> line]
            ELSE IF t = "" THEN [tag |-> "spacer"]
            ELSE [tag |-> "p", indented |-> FALSE, text |-> line]
    IN  node(trim(line))

\* C11: renderPlainText emits one node per input line, in input order; the
\* kind of a node depends on its own line only (heading, dash line, spacer,
\* text) and its content is the untrimmed line.  "HELLO WORLD", a blank line
\* and "- item" give a heading, a spacer and a dash line.
C11_OneNodePerLine ==
    /\ plain.pc # "idle" =>
          /\ Len(plain.lines) = Cardinality(Occurrences(plain.text, "\n", 1)) + 1
          /\ Len(plain.nodes) = plain.index
          /\ \A i \in 1..plain.index : plain.nodes[i] = PlainNodeClaimed(plain.lines[i])
    /\ PlainDone =>
          /\ plain.index = Len(plain.lines)
          /\ renderPlainText(plain.text).children = plain.nodes
    /\ (PlainDone /\ plain.text = "HELLO WORLD\n\n- item") =>
          plain.nodes = <<[tag |-> "h3", text |-> "HELLO WORLD"],
                          [tag |-> "spacer"],
                          [tag |-> "p", indented |-> TRUE, text |-> "- item"]>>

C11_Witness ==
    /\ PlainDone
    /\ plain.text = "TITLE\n  TITLE  \n\nText\n- a\n"
    /\ Len(plain.nodes) = 6
    /\ plain.nodes[2] = [tag |-> "h3", text |-> "  TITLE  "]

---------------------------------------------------------------------------
(* Properties of renderHtml (checked under SpecHtml) *)

SanitizerDone == sanitizer.pc = "done"

\* C12: the text the sanitizer produces holds no <script>...</script> span,
\* in any letter case and over several lines, and no on<word>="..." or
\* on<word>='...' attribute, also where a removal joined the text around it.
C12_NothingLeft ==
    SanitizerDone =>
        \A pattern \in {"script", "double", "single"} :
            \A i \in 1..Len(sanitizer.text) : MatchEnd(pattern, sanitizer.text, i) = 0

---------------------------------------------------------------------------
(* Properties of renderInlineMarkdown (checked under SpecInline) *)

\* the step pushed the text before match m (when not empty) and the element
\* of m, and continues with the text after m
TookMatch(m, tag) ==
    /\ inline'.parts = inline.parts \o PreSpan(m) \o <<Span(tag, m.body, m.href)>>
    /\ inline'.remaining = m.rest
    /\ inline'.pc = "loop"

\* the step of one iteration on the remaining text r
PriorityStep(r) ==
    IF boldMatch(r).ok THEN TookMatch(boldMatch(r), "strong")
    ELSE IF italicMatch(r).ok THEN TookMatch(italicMatch(r), "em")
    ELSE IF codeMatch(r).ok THEN TookMatch(codeMatch(r), "code")
    ELSE IF linkMatch(r).ok THEN TookMatch(linkMatch(r), "a")
    ELSE /\ inline'.parts = Append(inline.parts, TextSpan(r))
         /\ inline'.pc = "done"

\* C9: in every iteration the patterns are tried in the order bold, italic,
\* inline code, link, and the first of them that matches anywhere in the
\* remaining text is used, also when a later one would match at an earlier
\* position; for "*a **b** c*" the result is Text("*a "), Bold("b"),
\* Text(" c*").
C9_InlinePriority ==
    /\ [][(inline.pc = "loop" /\ inline.remaining # "") => PriorityStep(inline.remaining)]_vars
    /\ [](inline.pc = "done" /\ inline.text = "*a **b** c*" =>
            inline.parts = <<TextSpan("*a "), Span("strong", "b", ""), TextSpan(" c*")>>)

\* the bold of "*a **b** c*" was taken although the italic pattern matches
\* at the first character
C9_Witness ==
    /\ inline.pc = "done"
    /\ inline.text = "*a **b** c*"
    /\ italicMatch(inline.text).ok
    /\ Len(italicMatch(inline.text).pre) < Len(boldMatch(inline.text).pre)
    /\ Len(inline.parts) = 3
    /\ inline.parts[2].tag = "strong"

\* the text opens with "**" and holds no further "**" that could close it
UnclosedBold(t) == startsWith(t, "**") /\ Occurrences(t, "**", 3) = {}

\* C19: an unmatched marker is literal text: when the line opens with a "**"
\* that nothing closes, as in "**a*", both characters of the marker are in
\* the literal text the output starts with, and neither is used as the
\* delimiter of another span.
C19_UnmatchedLiteral ==
    (inline.pc = "done" /\ UnclosedBold(inline.text)) =>
        /\ Len(inline.parts) >= 1
        /\ inline.parts[1].tag = "span"
        /\ startsWith(inline.parts[1].text, "**")

\* the source texts a span can have been matched from: its content between
\* the markers of its kind
Delimited(p) ==
    CASE p.tag = "strong" -> {"**" \o p.text \o "**", "__" \o p.text \o "__"}
      [] p.tag = "em" -> {"*" \o p.text \o "*", "_" \o p.text \o "_"}
      [] p.tag = "code" -> {Tick \o p.text \o Tick}
      [] p.tag = "a" -> {"[" \o p.text \o "](" \o p.href \o ")"}
      [] OTHER -> {p.text}

\* the texts a sequence of spans can have been matched from
RECURSIVE Sources(_)
Sources(ps) ==
    IF Len(ps) = 0 THEN {""}
    ELSE {x \o y : x \in Delimited(ps[1]), y \in Sources(Tail(ps))}

\* C23: the spans of a line are a flat sequence: every span holds a string,
\* the raw substring between its markers, so that the spans with their
\* markers put back, followed by the text not parsed yet, are the line; for
\* "**a `b` c**" the one span is Bold with the backticks literal.
C23_FlatSpans ==
    /\ \A i \in 1..Len(inline.parts) :
          /\ DOMAIN inline.parts[i] = {"tag", "text", "href"}
          /\ inline.parts[i].tag \in {"span", "strong", "em", "code", "a"}
          /\ inline.parts[i].text \in STRING
    /\ inline.pc = "loop" =>
          inline.text \in {x \o inline.remaining : x \in Sources(inline.parts)}
    /\ inline.pc = "done" => inline.text \in Sources(inline.parts)
    /\ (inline.pc = "done" /\ inline.text = "**a " \o Tick \o "b" \o Tick \o " c**") =>
          inline.parts = <<Span("strong", "a " \o Tick \o "b" \o Tick \o " c", "")>>

\* the bold of "**a `b` c**" holds an inline code construct as plain text
C23_Witness ==
    /\ inline.pc = "done"
    /\ inline.text = "**a " \o Tick \o "b" \o Tick \o " c**"
    /\ Len(inline.parts) = 1
    /\ inline.parts[1].tag = "strong"
    /\ codeMatch(inline.parts[1].text).ok

\* the parts the step pushed
Pushed == SubSeq(inline'.parts, Len(inline.parts) + 1, Len(inline'.parts))

\* the step pushed the parts ps for a match: at most one literal text, not
\* empty, and the matched span; the remaining text was that literal text, the
\* span between its markers, and the text the loop continues with
MatchPushed(ps) ==
    /\ Len(ps) \in {1, 2}
    /\ ps[Len(ps)].tag \in {"strong", "em", "code", "a"}
    /\ Len(ps) = 2 => ps[1].tag = "span" /\ ps[1].text # ""
    /\ inline.remaining \in
          {(IF Len(ps) = 2 THEN ps[1].text ELSE "") \o x \o inline'.remaining :
               x \in Delimited(ps[Len(ps)])}

\* an italic, code or link construct stands before the first bold of t
ConstructBeforeBold(t) ==
    /\ boldMatch(t).ok
    /\ \/ italicMatch(boldMatch(t).pre).ok
       \/ codeMatch(boldMatch(t).pre).ok
       \/ linkMatch(boldMatch(t).pre).ok

\* C24: an iteration that finds a match pushes the text before the match as
\* one literal Text span (none when it is empty), then the matched span, and
\* continues with the text after the match only; the text before the match
\* is not scanned again, so a construct of a lower priority that stands
\* before a bold stays literal text.
C24_PrefixLiteral ==
    /\ [][(inline.pc = "loop" /\ inline'.pc = "loop") =>
             /\ SubSeq(inline'.parts, 1, Len(inline.parts)) = inline.parts
             /\ MatchPushed(Pushed)]_vars
    /\ [](inline.pc = "done" /\ ConstructBeforeBold(inline.text) =>
             /\ inline.parts[1] = TextSpan(boldMatch(inline.text).pre)
             /\ inline.parts[2].tag = "strong")

\* the italic before the bold of "Some *x* and **y**." is in the literal text
C24_Witness ==
    /\ inline.pc = "done"
    /\ inline.text = "Some *x* and **y**."
    /\ ConstructBeforeBold(inline.text)
    /\ inline.parts[1] = TextSpan("Some *x* and ")
    /\ inline.parts[2] = Span("strong", "y", "")

\* C27: the loop terminates on every line: an iteration that finds a match
\* continues with a remaining text strictly shorter than before, an iteration
\* that finds none pushes the remaining text as one Text span and leaves the
\* loop, and the loop is left when nothing remains; the number of spans and
\* the length of the remaining text never exceed the length of the line.
C27_Terminates ==
    /\ [][inline.pc = "loop" =>
             \/ /\ inline'.pc = "loop"
                /\ Len(inline'.remaining) < Len(inline.remaining)
             \/ /\ inline'.pc = "done"
                /\ inline.remaining # ""
                /\ inline'.parts = Append(inline.parts, TextSpan(inline.remaining))
             \/ /\ inline'.pc = "done"
                /\ inline.remaining = ""
                /\ inline'.parts = inline.parts]_vars
    /\ [](inline.pc = "loop" =>
             Len(inline.parts) + Len(inline.remaining) <= Len(inline.text))
    /\ [](inline.pc = "done" => Len(inline.parts) <= Len(inline.text))

\* a match, then an iteration without a match that pushes the rest and stops
C27_Witness ==
    /\ inline.pc = "done"
    /\ inline.text = "a*a*a"
    /\ inline.remaining = "a"
    /\ inline.parts = <<TextSpan("a"), Span("em", "a", ""), TextSpan("a")>>

---------------------------------------------------------------------------
(* Properties of useSession (checked under SpecSession) *)

\* C28: once the sessions are loaded, after any calls of createSession,
\* switchSession and deleteSession, also two deleteSession calls made from
\* one render, the session list is not empty and activeSessionId is the id of
\* a session of the list.
C28_ActiveValid ==
    ~session.isLoading =>
        /\ session.sessions # <<>>
        /\ some(session.sessions, session.activeSessionId)

---------------------------------------------------------------------------
(* Properties of the background listener (checked under SpecBackground and *)
(* SpecBackgroundFair)                                                     *)

\* message i is a SAVE_SETTINGS request that was handled to completion, with
\* no storage call rejected
Saved(i) ==
    /\ background.msgs[i].message.type = "SAVE_SETTINGS"
    /\ background.msgs[i].pc = "done"
    /\ ~background.msgs[i].failed
    /\ background.msgs[i].responses = <<Success(NoData)>>

\* the stored settings hold the values of payload p
Holds(p) ==
    /\ background.stored.set
    /\ \A f \in DOMAIN p :
          f \in DOMAIN background.stored.value /\ background.stored.value[f] = p[f]

\* C29: when two SAVE_SETTINGS requests that set different fields are both
\* handled to completion, the stored settings hold the new values of both,
\* whatever the interleaving of their storage reads and writes.
C29_NoLostUpdate ==
    \A i, j \in 1..Len(background.msgs) :
        (/\ i # j
         /\ Saved(i)
         /\ Saved(j)
         /\ DOMAIN background.msgs[i].message.payload
                \cap DOMAIN background.msgs[j].message.payload = {}) =>
            /\ Holds(background.msgs[i].message.payload)
            /\ Holds(background.msgs[j].message.payload)

\* the responses the handler of a message of this type can give, and the
\* response of the catch for an error it can throw
IsResponseOf(type, response) ==
    CASE type = "GET_SETTINGS" ->
            /\ response.success
            /\ response.error = ""
            /\ DOMAIN response.data = DOMAIN DEFAULT_SETTINGS
      [] type = "SAVE_SETTINGS" ->
            \/ response.success /\ response.error = "" /\ response.data = NoData
            \/ ~response.success /\ response.error = "Error: storage"
      [] type \in PageTypes ->
            \/ response.success /\ response.error = "" /\ response.data = PageData
            \/ /\ ~response.success
               /\ response.error \in {"No active tab", "Cannot read browser internal pages",
                                      "Please refresh the page and try again", "Error: tabs"}
      [] OTHER -> ~response.success /\ response.error = "Unknown message type"

\* C30: the listener answers every message exactly once: no message has two
\* responses, a message whose handler is over has one, the result of
\* handleMessage or the failure of the catch, a response is never followed by
\* another, and every message received is answered.
C30_AnsweredOnce ==
    /\ [](\A i \in 1..Len(background.msgs) :
             /\ Len(background.msgs[i].responses) <= 1
             /\ background.msgs[i].pc = "done" <=> Len(background.msgs[i].responses) = 1
             /\ background.msgs[i].pc = "done" =>
                   IsResponseOf(background.msgs[i].message.type,
                                background.msgs[i].responses[1]))
    /\ [][\A i \in 1..Len(background.msgs) :
             background.msgs[i].responses # <<>> =>
                 background'.msgs[i].responses = background.msgs[i].responses]_vars
    /\ \A i \in 1..MaxMessages :
          (Len(background.msgs) >= i) ~>
              (Len(background.msgs) >= i /\ Len(background.msgs[i].responses) = 1)

\* a message whose handler threw and a message of an unknown type were both
\* answered
C30_Witness ==
    \E i, j \in 1..Len(background.msgs) :
        /\ background.msgs[i].failed
        /\ background.msgs[i].responses = <<Failure("Error: tabs")>>
        /\ background.msgs[j].message.type = "PING"
        /\ background.msgs[j].responses = <<Failure("Unknown message type")>>

=============================================================================
